---- MODULE Spec2Model ----
(***************************************************************************)
(* Dense LU factorization with partial pivoting (PartialPivLU) and the     *)
(* blocked triangular solver it uses.  Scalars are exact rationals         *)
(* <<numerator, denominator>>; a denominator of 0 stands for the           *)
(* non-finite values (inf, nan) a division by zero produces.               *)
(***************************************************************************)
EXTENDS Integers, Sequences, FiniteSets, TLC

(***************************************************************************)
(* Scalar arithmetic                                                       *)
(***************************************************************************)
Abs(i) == IF i < 0 THEN -i ELSE i

Sgn(i) == IF i < 0 THEN -1 ELSE IF i = 0 THEN 0 ELSE 1

Min(a, b) == IF a < b THEN a ELSE b

Max(a, b) == IF a < b THEN b ELSE a

RECURSIVE Gcd(_, _)
Gcd(a, b) == IF b = 0 THEN a ELSE Gcd(b, a % b)

\* the canonical form of the fraction n/d
Rat(n, d) ==
    IF d = 0 THEN <<Sgn(n), 0>>
    ELSE IF n = 0 THEN <<0, 1>>
    ELSE IF d = 1 THEN <<n, 1>>
    ELSE LET g == Gcd(Abs(n), Abs(d))
             s == IF d < 0 THEN -1 ELSE 1
         IN  <<s * (n \div g), s * (d \div g)>>

Zero == <<0, 1>>

One == <<1, 1>>

RInt(i) == <<i, 1>>

IsFinite(a) == a[2] # 0

IsZero(a) == a[1] = 0 /\ a[2] # 0

RAdd(a, b) ==
    IF IsZero(b) /\ IsFinite(a) THEN a
    ELSE IF IsZero(a) /\ IsFinite(b) THEN b
    ELSE Rat(a[1] * b[2] + b[1] * a[2], a[2] * b[2])

RNeg(a) == <<-a[1], a[2]>>

RSub(a, b) == RAdd(a, RNeg(b))

RMul(a, b) ==
    IF a = One THEN b
    ELSE IF b = One THEN a
    ELSE Rat(a[1] * b[1], a[2] * b[2])

RDiv(a, b) ==
    IF b = One THEN a
    ELSE Rat(a[1] * b[2], a[2] * b[1])

\* |a| > |b| for finite a, b
AbsGreater(a, b) == Abs(a[1]) * b[2] > Abs(b[1]) * a[2]

(***************************************************************************)
(* Dense matrices: M[i][j], rows and columns numbered from 0                *)
(***************************************************************************)
Rows(M) == Cardinality(DOMAIN M)

Cols(M) == IF DOMAIN M = {} THEN 0 ELSE Cardinality(DOMAIN M[0])

\* the sub-block view of M with corner (r0, c0) and nr x nc coefficients
Block(M, r0, c0, nr, nc) ==
    [i \in 0..(nr - 1) |-> [j \in 0..(nc - 1) |-> M[r0 + i][c0 + j]]]

\* M after the coefficients seen through the view at (r0, c0) became B
SetBlock(M, r0, c0, B) ==
    [i \in DOMAIN M |-> [j \in DOMAIN M[i] |->
        IF i - r0 \in DOMAIN B /\ j - c0 \in DOMAIN B[i - r0]
        THEN B[i - r0][j - c0] ELSE M[i][j]]]

\* row(a).swap(row(b))
SwapRows(M, a, b) ==
    [i \in DOMAIN M |-> IF i = a THEN M[b] ELSE IF i = b THEN M[a] ELSE M[i]]

Identity(n) == [i \in 0..(n - 1) |-> [j \in 0..(n - 1) |-> IF i = j THEN One ELSE Zero]]

RECURSIVE Dot(_, _, _, _, _, _)
\* the sum over k in lo..hi of A[i][k] * B[k][j]; the sum is exact, so it is
\* taken by halves
Dot(A, i, B, j, lo, hi) ==
    IF lo > hi THEN Zero
    ELSE IF lo = hi THEN RMul(A[i][lo], B[lo][j])
    ELSE RAdd(Dot(A, i, B, j, lo, (lo + hi) \div 2),
              Dot(A, i, B, j, ((lo + hi) \div 2) + 1, hi))

\* the matrix product A * B
MatMul(A, B) ==
    [i \in DOMAIN A |-> [j \in 0..(Cols(B) - 1) |-> Dot(A, i, B, j, 0, Rows(B) - 1)]]

AllFinite(M) == \A i \in DOMAIN M : \A j \in DOMAIN M[i] : IsFinite(M[i][j])

(***************************************************************************)
(* ei_partial_lu_impl::unblocked_lu                                        *)
(***************************************************************************)
\* the value of a row_transpositions entry that was never written
Uninit == -1

\* Faulty variant: a later row is taken only when the first holds a zero
Larger_first_nonzero(M, k, first, later) ==
    IF IsZero(M[first][k]) THEN later ELSE first

\* the later row only when it is strictly larger: ties keep the first
Larger(M, k, first, later) ==
    IF AbsGreater(M[later][k], M[first][k]) THEN later ELSE first

\* cwiseAbs().maxCoeff(&row): the first row in lo..hi whose |M[.][k]| is the
\* largest, found by halves
RECURSIVE maxCoeff(_, _, _, _)
maxCoeff(M, k, lo, hi) ==
    IF lo >= hi THEN lo
    ELSE Larger(M, k, maxCoeff(M, k, lo, (lo + hi) \div 2),
                maxCoeff(M, k, ((lo + hi) \div 2) + 1, hi))

\* Faulty variant: a step whose pivot row is k itself counts a transposition
unblocked_step_counting_all(s, k) ==
    LET lu    == s.lu
        rows  == Rows(lu)
        cols  == Cols(lu)
        size  == Min(rows, cols)
        row_of_biggest_in_col == maxCoeff(lu, k, k, rows - 1)
        biggest_in_corner     == lu[row_of_biggest_in_col][k]
    IN  IF IsZero(biggest_in_corner)
        THEN [s EXCEPT !.row_transpositions =
                           [i \in DOMAIN @ |-> IF i >= k /\ i < size THEN i ELSE @[i]],
                       !.ret = FALSE, !.pc = "done"]
        ELSE LET sw == IF k # row_of_biggest_in_col
                       THEN SwapRows(lu, k, row_of_biggest_in_col) ELSE lu
                 piv   == sw[k][k]
                 rsize == size - k - 1
                 el == IF k < rows - 1
                       THEN [i \in DOMAIN sw |-> [j \in DOMAIN sw[i] |->
                               IF i <= k THEN sw[i][j]
                               ELSE IF j = k THEN RDiv(sw[i][k], piv)
                               ELSE IF j >= cols - rsize
                                    THEN RSub(sw[i][j], RMul(RDiv(sw[i][k], piv), sw[k][j]))
                               ELSE sw[i][j]]]
                       ELSE sw
             IN  [s EXCEPT !.lu = el,
                           !.row_transpositions[k] = row_of_biggest_in_col,
                           !.nb_transpositions = @ + 1,
                           !.ndiv = IF k < rows - 1 THEN @ + 1 ELSE @,
                           !.pivots = @ \cup {<<k, row_of_biggest_in_col>>},
                           !.divzero = @ \/ (k < rows - 1 /\ IsZero(piv)),
                           !.k = k + 1,
                           !.pc = IF k + 1 < size THEN "loop" ELSE "done"]

\* Faulty variant: the pivot is not tested, the division is always executed
unblocked_step_unchecked(s, k) ==
    LET lu    == s.lu
        rows  == Rows(lu)
        cols  == Cols(lu)
        size  == Min(rows, cols)
        row_of_biggest_in_col == maxCoeff(lu, k, k, rows - 1)
        biggest_in_corner     == lu[row_of_biggest_in_col][k]
    IN  IF FALSE
        THEN s
        ELSE LET sw == IF k # row_of_biggest_in_col
                       THEN SwapRows(lu, k, row_of_biggest_in_col) ELSE lu
                 piv   == sw[k][k]
                 rsize == size - k - 1
                 el == IF k < rows - 1
                       THEN [i \in DOMAIN sw |-> [j \in DOMAIN sw[i] |->
                               IF i <= k THEN sw[i][j]
                               ELSE IF j = k THEN RDiv(sw[i][k], piv)
                               ELSE IF j >= cols - rsize
                                    THEN RSub(sw[i][j], RMul(RDiv(sw[i][k], piv), sw[k][j]))
                               ELSE sw[i][j]]]
                       ELSE sw
             IN  [s EXCEPT !.lu = el,
                           !.row_transpositions[k] = row_of_biggest_in_col,
                           !.nb_transpositions =
                               IF k # row_of_biggest_in_col THEN @ + 1 ELSE @,
                           !.ndiv = IF k < rows - 1 THEN @ + 1 ELSE @,
                           !.pivots = @ \cup {<<k, row_of_biggest_in_col>>},
                           !.divzero = @ \/ (k < rows - 1 /\ IsZero(piv)),
                           !.k = k + 1,
                           !.pc = IF k + 1 < size THEN "loop" ELSE "done"]

\* Faulty variant: on a zero pivot every transposition entry is reset
unblocked_step_fill_all(s, k) ==
    LET lu    == s.lu
        rows  == Rows(lu)
        cols  == Cols(lu)
        size  == Min(rows, cols)
        row_of_biggest_in_col == maxCoeff(lu, k, k, rows - 1)
        biggest_in_corner     == lu[row_of_biggest_in_col][k]
    IN  IF IsZero(biggest_in_corner)
        THEN [s EXCEPT !.row_transpositions =
                           [i \in DOMAIN @ |-> IF i < size THEN i ELSE @[i]],
                       !.ret = FALSE, !.pc = "done"]
        ELSE LET sw == IF k # row_of_biggest_in_col
                       THEN SwapRows(lu, k, row_of_biggest_in_col) ELSE lu
                 piv   == sw[k][k]
                 rsize == size - k - 1
                 el == IF k < rows - 1
                       THEN [i \in DOMAIN sw |-> [j \in DOMAIN sw[i] |->
                               IF i <= k THEN sw[i][j]
                               ELSE IF j = k THEN RDiv(sw[i][k], piv)
                               ELSE IF j >= cols - rsize
                                    THEN RSub(sw[i][j], RMul(RDiv(sw[i][k], piv), sw[k][j]))
                               ELSE sw[i][j]]]
                       ELSE sw
             IN  [s EXCEPT !.lu = el,
                           !.row_transpositions[k] = row_of_biggest_in_col,
                           !.nb_transpositions =
                               IF k # row_of_biggest_in_col THEN @ + 1 ELSE @,
                           !.ndiv = IF k < rows - 1 THEN @ + 1 ELSE @,
                           !.pivots = @ \cup {<<k, row_of_biggest_in_col>>},
                           !.divzero = @ \/ (k < rows - 1 /\ IsZero(piv)),
                           !.k = k + 1,
                           !.pc = IF k + 1 < size THEN "loop" ELSE "done"]

\* Faulty variant: no pivot search, the diagonal entry is the pivot
unblocked_step_no_pivoting(s, k) ==
    LET lu    == s.lu
        rows  == Rows(lu)
        cols  == Cols(lu)
        size  == Min(rows, cols)
        row_of_biggest_in_col == k
        biggest_in_corner     == lu[row_of_biggest_in_col][k]
    IN  IF IsZero(biggest_in_corner)
        THEN [s EXCEPT !.row_transpositions =
                           [i \in DOMAIN @ |-> IF i >= k /\ i < size THEN i ELSE @[i]],
                       !.ret = FALSE, !.pc = "done"]
        ELSE LET sw == IF k # row_of_biggest_in_col
                       THEN SwapRows(lu, k, row_of_biggest_in_col) ELSE lu
                 piv   == sw[k][k]
                 rsize == size - k - 1
                 el == IF k < rows - 1
                       THEN [i \in DOMAIN sw |-> [j \in DOMAIN sw[i] |->
                               IF i <= k THEN sw[i][j]
                               ELSE IF j = k THEN RDiv(sw[i][k], piv)
                               ELSE IF j >= cols - rsize
                                    THEN RSub(sw[i][j], RMul(RDiv(sw[i][k], piv), sw[k][j]))
                               ELSE sw[i][j]]]
                       ELSE sw
             IN  [s EXCEPT !.lu = el,
                           !.row_transpositions[k] = row_of_biggest_in_col,
                           !.nb_transpositions =
                               IF k # row_of_biggest_in_col THEN @ + 1 ELSE @,
                           !.ndiv = IF k < rows - 1 THEN @ + 1 ELSE @,
                           !.pivots = @ \cup {<<k, row_of_biggest_in_col>>},
                           !.divzero = @ \/ (k < rows - 1 /\ IsZero(piv)),
                           !.k = k + 1,
                           !.pc = IF k + 1 < size THEN "loop" ELSE "done"]

\* one iteration of the elimination loop, for column k
unblocked_step(s, k) ==
    LET lu    == s.lu
        rows  == Rows(lu)
        cols  == Cols(lu)
        size  == Min(rows, cols)
        row_of_biggest_in_col == maxCoeff(lu, k, k, rows - 1)
        biggest_in_corner     == lu[row_of_biggest_in_col][k]
    IN  IF IsZero(biggest_in_corner)
        THEN [s EXCEPT !.row_transpositions =
                           [i \in DOMAIN @ |-> IF i >= k /\ i < size THEN i ELSE @[i]],
                       !.ret = FALSE, !.pc = "done"]
        ELSE LET sw == IF k # row_of_biggest_in_col
                       THEN SwapRows(lu, k, row_of_biggest_in_col) ELSE lu
                 piv   == sw[k][k]
                 rsize == size - k - 1
                 el == IF k < rows - 1
                       THEN [i \in DOMAIN sw |-> [j \in DOMAIN sw[i] |->
                               IF i <= k THEN sw[i][j]
                               ELSE IF j = k THEN RDiv(sw[i][k], piv)
                               ELSE IF j >= cols - rsize
                                    THEN RSub(sw[i][j], RMul(RDiv(sw[i][k], piv), sw[k][j]))
                               ELSE sw[i][j]]]
                       ELSE sw
             IN  [s EXCEPT !.lu = el,
                           !.row_transpositions[k] = row_of_biggest_in_col,
                           !.nb_transpositions =
                               IF k # row_of_biggest_in_col THEN @ + 1 ELSE @,
                           !.ndiv = IF k < rows - 1 THEN @ + 1 ELSE @,
                           !.pivots = @ \cup {<<k, row_of_biggest_in_col>>},
                           !.divzero = @ \/ (k < rows - 1 /\ IsZero(piv)),
                           !.k = k + 1,
                           !.pc = IF k + 1 < size THEN "loop" ELSE "done"]

\* the state at the entry of the loop
unblocked_begin(lu, row_transpositions) ==
    [lu |-> lu, row_transpositions |-> row_transpositions, nb_transpositions |-> 0,
     ret |-> TRUE, k |-> 0, ndiv |-> 0, divzero |-> FALSE, pivots |-> {},
     scratch |-> {},
     pc |-> IF Min(Rows(lu), Cols(lu)) > 0 THEN "loop" ELSE "done"]

RECURSIVE unblocked_run(_)
unblocked_run(s) ==
    IF s.pc = "done" THEN s ELSE unblocked_run(unblocked_step(s, s.k))

unblocked_lu(lu, row_transpositions) ==
    unblocked_run(unblocked_begin(lu, row_transpositions))

(***************************************************************************)
(* Panel Packer and Rank-k Update Kernel (ei_gemm_pack_rhs,                *)
(* ei_gemm_pack_lhs, ei_gebp_kernel), by their logical content: a packed   *)
(* buffer is addressed by (position, column) or (row, position).           *)
(***************************************************************************)
NaN == <<0, 0>>

\* a scratch buffer right after its allocation: nothing in it is defined
ei_aligned_stack_new(n, m) == [p \in 0..(n - 1) |-> [j \in 0..(m - 1) |-> NaN]]

\* the scratch memory of a call: the buffers alive, each with the size it was
\* allocated with, and the list of the allocations and releases made
NoScratch == [live |-> {}, log |-> <<>>]

\* ei_aligned_stack_new(Scalar, size), the pointer being kept in `name`
stack_new(heap, name, size) ==
    [live |-> heap.live \cup {<<name, size>>},
     log  |-> Append(heap.log, <<"new", name, size>>)]

\* ei_aligned_stack_delete(Scalar, name, size)
ei_aligned_stack_delete(heap, name, size) ==
    [live |-> heap.live \ {<<name, size>>},
     log  |-> Append(heap.log, <<"delete", name, size>>)]

\* ei_product_blocking_traits: the packet size and the register block nr
Blocking_PacketSize == 2

Blocking_nr == 4

\* blockA and allocatedBlockB (the workspace of the kernel, then blockB)
run_enter(kc, mc, otherSize) ==
    stack_new(stack_new(NoScratch, "blockA", kc * mc), "allocatedBlockB",
              kc * Blocking_PacketSize * Blocking_nr + kc * otherSize)

\* Faulty variant: blockA is not released
run_return_keeping_blockA(st, kc, mc, otherSize) ==
    [st EXCEPT !.heap =
        ei_aligned_stack_delete(@, "allocatedBlockB",
            kc * Blocking_PacketSize * Blocking_nr + kc * otherSize)]

\* the two releases that end run
run_return(st, kc, mc, otherSize) ==
    [st EXCEPT !.heap =
        ei_aligned_stack_delete(ei_aligned_stack_delete(@, "blockA", kc * mc),
            "allocatedBlockB",
            kc * Blocking_PacketSize * Blocking_nr + kc * otherSize)]

\* blockB after packing alpha * rhs(r0 .. r0+depth-1, 0 .. cols-1) at offset
pack_rhs(blockB, rhs, r0, alpha, depth, cols, offset) ==
    [p \in DOMAIN blockB |-> [j \in DOMAIN blockB[p] |->
        IF p >= offset /\ p < offset + depth /\ j < cols
        THEN RMul(alpha, rhs[r0 + p - offset][j]) ELSE blockB[p][j]]]

\* blockA holding lhs(r0 .. r0+rows-1, c0 .. c0+depth-1)
pack_lhs(lhs, r0, c0, depth, rows) ==
    [i \in 0..(rows - 1) |-> [d \in 0..(depth - 1) |-> lhs[r0 + i][c0 + d]]]

RECURSIVE gebp_dot(_, _, _, _, _, _, _, _)
\* the sum over the positions d in lo..hi of blockA(i, d) * blockB(d, j)
gebp_dot(blockA, i, offsetA, blockB, j, offsetB, lo, hi) ==
    IF lo > hi THEN Zero
    ELSE IF lo = hi THEN RMul(blockA[i][offsetA + lo], blockB[offsetB + lo][j])
    ELSE RAdd(gebp_dot(blockA, i, offsetA, blockB, j, offsetB, lo, (lo + hi) \div 2),
              gebp_dot(blockA, i, offsetA, blockB, j, offsetB, ((lo + hi) \div 2) + 1, hi))

\* res(r0 .. r0+rows-1, 0 .. cols-1) += blockA * blockB over depth positions
gebp_kernel(res, r0, blockA, blockB, rows, depth, cols, offsetA, offsetB) ==
    [i \in DOMAIN res |-> [j \in DOMAIN res[i] |->
        IF i >= r0 /\ i < r0 + rows /\ j < cols
        THEN RAdd(res[i][j],
                  gebp_dot(blockA, i - r0, offsetA, blockB, j, offsetB, 0, depth - 1))
        ELSE res[i][j]]]

(***************************************************************************)
(* ei_triangular_solve_matrix<OnTheLeft, Mode, TriStorageOrder, ColMajor>  *)
(* A solver state st holds the right-hand side `other`, the packed panel   *)
(* blockB and the list of the steps taken so far.                          *)
(***************************************************************************)
IsLower(Mode) == Mode \in {"Lower", "UnitLower"}

UnitDiag(Mode) == Mode \in {"UnitLower", "UnitUpper"}

RECURSIVE tri_row_dot(_, _, _, _, _, _)
\* sum over i3 < k of tri(i, s + i3) * other(s + i3, j)
tri_row_dot(tri, i, s, other, j, k) ==
    IF k <= 0 THEN Zero
    ELSE RAdd(tri_row_dot(tri, i, s, other, j, k - 1),
              RMul(tri[i][s + k - 1], other[s + k - 1][j]))

\* Faulty variant: the diagonal is taken as unit in every mode
left_tr_solve_row_unit(Mode, TriStorageOrder, tri, other, cols, k2, k1, k, actualPanelWidth) ==
    LET i  == IF IsLower(Mode) THEN k2 + k1 + k ELSE k2 - k1 - k - 1
        s  == IF IsLower(Mode) THEN k2 + k1 ELSE i + 1
        rs == actualPanelWidth - k - 1
        a  == One
        s2 == IF IsLower(Mode) THEN i + 1 ELSE i - rs
    IN  IF TriStorageOrder = "RowMajor"
        THEN [r \in DOMAIN other |-> [j \in DOMAIN other[r] |->
                IF r = i /\ j < cols
                THEN RMul(RSub(other[i][j], tri_row_dot(tri, i, s, other, j, k)), a)
                ELSE other[r][j]]]
        ELSE [r \in DOMAIN other |-> [j \in DOMAIN other[r] |->
                IF j >= cols THEN other[r][j]
                ELSE IF r = i THEN RMul(other[i][j], a)
                ELSE IF r >= s2 /\ r < s2 + rs
                     THEN RSub(other[r][j], RMul(RMul(other[i][j], a), tri[r][i]))
                ELSE other[r][j]]]

\* Faulty variant: the diagonal is read and divided by in every mode
left_tr_solve_row_dividing(Mode, TriStorageOrder, tri, other, cols, k2, k1, k, actualPanelWidth) ==
    LET i  == IF IsLower(Mode) THEN k2 + k1 + k ELSE k2 - k1 - k - 1
        s  == IF IsLower(Mode) THEN k2 + k1 ELSE i + 1
        rs == actualPanelWidth - k - 1
        a  == RDiv(One, tri[i][i])
        s2 == IF IsLower(Mode) THEN i + 1 ELSE i - rs
    IN  IF TriStorageOrder = "RowMajor"
        THEN [r \in DOMAIN other |-> [j \in DOMAIN other[r] |->
                IF r = i /\ j < cols
                THEN RMul(RSub(other[i][j], tri_row_dot(tri, i, s, other, j, k)), a)
                ELSE other[r][j]]]
        ELSE [r \in DOMAIN other |-> [j \in DOMAIN other[r] |->
                IF j >= cols THEN other[r][j]
                ELSE IF r = i THEN RMul(other[i][j], a)
                ELSE IF r >= s2 /\ r < s2 + rs
                     THEN RSub(other[r][j], RMul(RMul(other[i][j], a), tri[r][i]))
                ELSE other[r][j]]]

\* the body of the loop over k: row i of the small triangular part
left_tr_solve_row(Mode, TriStorageOrder, tri, other, cols, k2, k1, k, actualPanelWidth) ==
    LET i  == IF IsLower(Mode) THEN k2 + k1 + k ELSE k2 - k1 - k - 1
        s  == IF IsLower(Mode) THEN k2 + k1 ELSE i + 1
        rs == actualPanelWidth - k - 1
        a  == IF UnitDiag(Mode) THEN One ELSE RDiv(One, tri[i][i])
        s2 == IF IsLower(Mode) THEN i + 1 ELSE i - rs
    IN  IF TriStorageOrder = "RowMajor"
        THEN [r \in DOMAIN other |-> [j \in DOMAIN other[r] |->
                IF r = i /\ j < cols
                THEN RMul(RSub(other[i][j], tri_row_dot(tri, i, s, other, j, k)), a)
                ELSE other[r][j]]]
        ELSE [r \in DOMAIN other |-> [j \in DOMAIN other[r] |->
                IF j >= cols THEN other[r][j]
                ELSE IF r = i THEN RMul(other[i][j], a)
                ELSE IF r >= s2 /\ r < s2 + rs
                     THEN RSub(other[r][j], RMul(RMul(other[i][j], a), tri[r][i]))
                ELSE other[r][j]]]

\* the diagonal index i of the iteration k of the sweep
left_i(Mode, k2, k1, k) == IF IsLower(Mode) THEN k2 + k1 + k ELSE k2 - k1 - k - 1

\* the index s the loop over i3 starts from: the first row of the small panel
\* already solved (row-major operand) or still to update (column-major)
left_s(Mode, TriStorageOrder, k2, k1, k, actualPanelWidth) ==
    IF TriStorageOrder = "RowMajor"
    THEN (IF IsLower(Mode) THEN k2 + k1 ELSE left_i(Mode, k2, k1, k) + 1)
    ELSE (IF IsLower(Mode) THEN left_i(Mode, k2, k1, k) + 1
          ELSE left_i(Mode, k2, k1, k) - (actualPanelWidth - k - 1))

RECURSIVE left_tr_solve(_, _, _, _, _, _)
\* the loop over k = 0 .. actualPanelWidth-1; a step is listed with i, s and
\* the number of iterations of its loop over i3
left_tr_solve(Mode, TriStorageOrder, tri, st, cols, actualPanelWidth) ==
    IF st.k >= actualPanelWidth THEN st
    ELSE left_tr_solve(Mode, TriStorageOrder, tri,
            [st EXCEPT !.other = left_tr_solve_row(Mode, TriStorageOrder, tri, @, cols,
                                                   st.k2, st.k1, st.k, actualPanelWidth),
                       !.trace = Append(@, <<"row",
                           left_i(Mode, st.k2, st.k1, st.k),
                           left_s(Mode, TriStorageOrder, st.k2, st.k1, st.k,
                                  actualPanelWidth),
                           IF TriStorageOrder = "RowMajor" THEN st.k
                           ELSE actualPanelWidth - st.k - 1>>),
                       !.k = @ + 1],
            cols, actualPanelWidth)

\* GEBP: the rows of the big panel still to solve get the effect of the small one
left_gebp(tri, s1, blockB, cols, startTarget, startBlock, lengthTarget, actualPanelWidth, blockBOffset) ==
    IF lengthTarget > 0
    THEN [s1 EXCEPT !.blockB = blockB,
                    !.other = gebp_kernel(@, startTarget,
                                  pack_lhs(tri, startTarget, startBlock, actualPanelWidth,
                                           lengthTarget),
                                  blockB, lengthTarget, actualPanelWidth, cols, 0,
                                  blockBOffset),
                    !.trace = Append(Append(@, <<"pack", startBlock, actualPanelWidth>>),
                                     <<"gebp", startTarget, lengthTarget>>)]
    ELSE [s1 EXCEPT !.blockB = blockB,
                    !.trace = Append(@, <<"pack", startBlock, actualPanelWidth>>)]

\* pack_rhs of the rows just solved (s1 is the state after the sweep), then GEBP
left_pack_gebp(Mode, tri, s1, cols, actual_kc, actualPanelWidth) ==
    LET k2 == s1.k2
        k1 == s1.k1
        lengthTarget == actual_kc - k1 - actualPanelWidth
        startBlock   == IF IsLower(Mode) THEN k2 + k1 ELSE k2 - k1 - actualPanelWidth
        blockBOffset == IF IsLower(Mode) THEN k1 ELSE lengthTarget
        startTarget  == IF IsLower(Mode) THEN k2 + k1 + actualPanelWidth
                        ELSE k2 - actual_kc
    IN  left_gebp(tri, s1,
                  pack_rhs(s1.blockB, s1.other, startBlock, RInt(-1), actualPanelWidth,
                           cols, blockBOffset),
                  cols, startTarget, startBlock, lengthTarget, actualPanelWidth,
                  blockBOffset)

\* one small vertical panel: the unblocked sweep, pack_rhs, then GEBP
left_small_panel(Mode, TriStorageOrder, tri, st, cols, actual_kc, SmallPanelWidth) ==
    left_pack_gebp(Mode, tri,
        left_tr_solve(Mode, TriStorageOrder, tri, [st EXCEPT !.k = 0], cols,
                      Min(actual_kc - st.k1, SmallPanelWidth)),
        cols, actual_kc, Min(actual_kc - st.k1, SmallPanelWidth))

\* Faulty variant: only the first small vertical panel is processed
left_small_panels_first_only(Mode, TriStorageOrder, tri, st, cols, actual_kc, SmallPanelWidth) ==
    IF st.k1 >= actual_kc THEN st
    ELSE [left_small_panel(Mode, TriStorageOrder, tri, st, cols, actual_kc,
                           SmallPanelWidth)
          EXCEPT !.k1 = actual_kc]

RECURSIVE left_small_panels(_, _, _, _, _, _, _)
\* the loop over k1 = 0, SmallPanelWidth, ... < actual_kc
left_small_panels(Mode, TriStorageOrder, tri, st, cols, actual_kc, SmallPanelWidth) ==
    IF st.k1 >= actual_kc THEN st
    ELSE left_small_panels(Mode, TriStorageOrder, tri,
            [left_small_panel(Mode, TriStorageOrder, tri, st, cols, actual_kc,
                              SmallPanelWidth)
             EXCEPT !.k1 = @ + SmallPanelWidth],
            cols, actual_kc, SmallPanelWidth)

\* the body of the loop over i2: one block of rows of R2 gets A2 * B
left_gepp_block(Mode, tri, st, cols, kc, actual_kc, actual_mc) ==
    IF actual_mc > 0
    THEN [st EXCEPT !.other = gebp_kernel(@, st.i2,
                                  pack_lhs(tri, st.i2,
                                           IF IsLower(Mode) THEN st.k2 ELSE st.k2 - kc,
                                           actual_kc, actual_mc),
                                  st.blockB, actual_mc, actual_kc, cols, 0, 0),
                    !.trace = Append(@, <<"gepp", st.i2, actual_mc>>)]
    ELSE st

RECURSIVE left_gepp(_, _, _, _, _, _, _)
\* R2 = A2 * B: the loop over i2 = start, start+mc, ... < end
left_gepp(Mode, tri, st, cols, kc, mc, actual_kc) ==
    IF st.i2 >= (IF IsLower(Mode) THEN Rows(tri) ELSE st.k2 - kc) THEN st
    ELSE left_gepp(Mode, tri,
            [left_gepp_block(Mode, tri, st, cols, kc, actual_kc,
                 Min(mc, (IF IsLower(Mode) THEN Rows(tri) ELSE st.k2 - kc) - st.i2))
             EXCEPT !.i2 = @ + mc],
            cols, kc, mc, actual_kc)

\* the body of the loop over k2 without the update of R2
left_panel_without_gepp(Mode, TriStorageOrder, tri, st, cols, kc, mc, actual_kc, SmallPanelWidth) ==
    left_small_panels(Mode, TriStorageOrder, tri,
        [st EXCEPT !.trace = Append(@, <<"panel", st.k2>>), !.k1 = 0],
        cols, actual_kc, SmallPanelWidth)

\* the body of the loop over k2: the small panels, then the update of R2
left_panel(Mode, TriStorageOrder, tri, st, cols, kc, mc, actual_kc, SmallPanelWidth) ==
    left_gepp(Mode, tri,
        [left_small_panels(Mode, TriStorageOrder, tri,
             [st EXCEPT !.trace = Append(@, <<"panel", st.k2>>), !.k1 = 0],
             cols, actual_kc, SmallPanelWidth)
         EXCEPT !.i2 = IF IsLower(Mode) THEN st.k2 + kc ELSE 0],
        cols, kc, mc, actual_kc)

RECURSIVE left_panels(_, _, _, _, _, _, _, _)
\* the loop over k2: the cache-sized panels of the triangular operand
left_panels(Mode, TriStorageOrder, tri, st, cols, kc, mc, SmallPanelWidth) ==
    IF (IF IsLower(Mode) THEN st.k2 < Rows(tri) ELSE st.k2 > 0)
    THEN left_panels(Mode, TriStorageOrder, tri,
            [left_panel(Mode, TriStorageOrder, tri, st, cols, kc, mc,
                        Min(IF IsLower(Mode) THEN Rows(tri) - st.k2 ELSE st.k2, kc),
                        SmallPanelWidth)
             EXCEPT !.k2 = IF IsLower(Mode) THEN @ + kc ELSE @ - kc],
            cols, kc, mc, SmallPanelWidth)
    ELSE st

\* run(size, cols, tri, other) with the blocking sizes kc and mc: the state
\* holds other, blockB, the loop counters and the list of the steps taken
triangular_solve_left(Mode, TriStorageOrder, tri, other, cols, kc, mc, SmallPanelWidth) ==
    run_return(
        left_panels(Mode, TriStorageOrder, tri,
                    [other |-> other, blockB |-> ei_aligned_stack_new(kc, cols),
                     heap |-> run_enter(kc, mc, cols),
                     trace |-> <<>>, k2 |-> IF IsLower(Mode) THEN 0 ELSE Rows(tri),
                     k1 |-> 0, k |-> 0, i2 |-> 0],
                    cols, kc, mc, SmallPanelWidth),
        kc, mc, cols)

(***************************************************************************)
(* ei_triangular_solve_matrix<OnTheRight, Mode, TriStorageOrder, ColMajor> *)
(* The triangular operand is the rhs of the products and `other` the lhs.  *)
(* TriStorageOrder only selects the data mapper of the triangular operand  *)
(* and the packing routine, which address the same coefficients.  A solver *)
(* state st holds other, the packed buffers blockA, blockB (one packed     *)
(* panel per small panel start j2) and geb, and the loop counters.         *)
(***************************************************************************)
\* pack_lhs in panel mode: blockA(0 .. rows-1, offset .. offset+depth-1)
\* holds lhs(r0 .. r0+rows-1, c0 .. c0+depth-1)
pack_lhs_panel(blockA, lhs, r0, c0, depth, rows, offset) ==
    [i \in DOMAIN blockA |-> [d \in DOMAIN blockA[i] |->
        IF i < rows /\ d >= offset /\ d < offset + depth
        THEN lhs[r0 + i][c0 + d - offset] ELSE blockA[i][d]]]

\* gebp_kernel called on the address of res(r0, c0)
gebp_at(res, r0, c0, blockA, blockB, rows, depth, cols, offsetA, offsetB) ==
    SetBlock(res, r0, c0,
             gebp_kernel(Block(res, r0, c0, rows, cols), 0, blockA, blockB,
                         rows, depth, cols, offsetA, offsetB))

\* the panel packed at blockB + j2*actual_kc: the part of the columns
\* actual_j2 .. actual_j2+actualPanelWidth-1 off the diagonal block, times -1
right_pack_panel(Mode, tri, actual_k2, actual_kc, j2, actualPanelWidth) ==
    IF (IF IsLower(Mode) THEN actual_kc - j2 - actualPanelWidth ELSE j2) > 0
    THEN pack_rhs(ei_aligned_stack_new(actual_kc, actualPanelWidth),
                  Block(tri,
                        actual_k2 + (IF IsLower(Mode) THEN j2 + actualPanelWidth ELSE 0),
                        actual_k2 + j2,
                        IF IsLower(Mode) THEN actual_kc - j2 - actualPanelWidth ELSE j2,
                        actualPanelWidth),
                  0, RInt(-1),
                  IF IsLower(Mode) THEN actual_kc - j2 - actualPanelWidth ELSE j2,
                  actualPanelWidth,
                  IF IsLower(Mode) THEN j2 + actualPanelWidth ELSE 0)
    ELSE ei_aligned_stack_new(actual_kc, actualPanelWidth)

\* triangular packing: the loop over j2 = 0, SmallPanelWidth, ... < actual_kc
right_pack_panels(Mode, tri, actual_k2, actual_kc, SmallPanelWidth) ==
    [j2 \in {j \in 0..(actual_kc - 1) : j % SmallPanelWidth = 0} |->
        right_pack_panel(Mode, tri, actual_k2, actual_kc, j2,
                         Min(actual_kc - j2, SmallPanelWidth))]

\* geb: the panel of the triangular operand beside the diagonal block, times -1
right_pack_geb(tri, actual_k2, startPanel, actual_kc, rs) ==
    IF rs > 0
    THEN pack_rhs(ei_aligned_stack_new(actual_kc, rs),
                  Block(tri, actual_k2, startPanel, actual_kc, rs),
                  0, RInt(-1), actual_kc, rs, 0)
    ELSE ei_aligned_stack_new(actual_kc, 0)

RECURSIVE right_col_dot(_, _, _, _, _, _)
\* sum over k3 < k of other(r, c0 + k3) * tri(c0 + k3, j)
right_col_dot(other, r, c0, tri, j, k) ==
    IF k <= 0 THEN Zero
    ELSE RAdd(right_col_dot(other, r, c0, tri, j, k - 1),
              RMul(other[r][c0 + k - 1], tri[c0 + k - 1][j]))

\* the body of the loop over k: column j of the rows i2 .. i2+actual_mc-1
right_tr_solve_col(Mode, tri, other, i2, actual_mc, absolute_j2, actualPanelWidth, k) ==
    LET j  == IF IsLower(Mode) THEN absolute_j2 + actualPanelWidth - k - 1
              ELSE absolute_j2 + k
        c0 == IF IsLower(Mode) THEN j + 1 ELSE absolute_j2
        b  == IF UnitDiag(Mode) THEN One ELSE RDiv(One, tri[j][j])
    IN  [r \in DOMAIN other |-> [c \in DOMAIN other[r] |->
            IF c = j /\ r >= i2 /\ r < i2 + actual_mc
            THEN RMul(RSub(other[r][j], right_col_dot(other, r, c0, tri, j, k)), b)
            ELSE other[r][c]]]

RECURSIVE right_tr_solve(_, _, _, _, _, _)
\* unblocked triangular solve: the loop over k = 0 .. actualPanelWidth-1
right_tr_solve(Mode, tri, st, actual_mc, absolute_j2, actualPanelWidth) ==
    IF st.k >= actualPanelWidth THEN st
    ELSE right_tr_solve(Mode, tri,
            [st EXCEPT !.other = right_tr_solve_col(Mode, tri, @, st.i2, actual_mc,
                                                    absolute_j2, actualPanelWidth, st.k),
                       !.trace = Append(@, <<"col",
                           IF IsLower(Mode) THEN absolute_j2 + actualPanelWidth - st.k - 1
                           ELSE absolute_j2 + st.k>>),
                       !.k = @ + 1],
            actual_mc, absolute_j2, actualPanelWidth)

\* GEBP: the columns of the small panel get the effect of the columns of the
\* block already solved
right_gebp(st, actual_mc, absolute_j2, actualPanelWidth, panelOffset, panelLength) ==
    IF panelLength > 0
    THEN [st EXCEPT !.other = gebp_at(@, st.i2, absolute_j2, st.blockA, st.blockB[st.j2],
                                      actual_mc, panelLength, actualPanelWidth,
                                      panelOffset, panelOffset),
                    !.trace = Append(@, <<"gebp", absolute_j2, panelLength>>)]
    ELSE st

\* pack the just computed part of lhs to A (s1 is the state after the sweep)
right_pack_lhs(s1, actual_mc, absolute_j2, actualPanelWidth) ==
    [s1 EXCEPT !.blockA = pack_lhs_panel(@, s1.other, s1.i2, absolute_j2,
                                         actualPanelWidth, actual_mc, s1.j2)]

\* one small block of the diagonal: GEBP, the unblocked solve, pack_lhs_panel
right_small_panel(Mode, tri, st, actual_k2, actual_kc, actual_mc, actualPanelWidth) ==
    right_pack_lhs(
        right_tr_solve(Mode, tri,
            [right_gebp(st, actual_mc, actual_k2 + st.j2, actualPanelWidth,
                        IF IsLower(Mode) THEN st.j2 + actualPanelWidth ELSE 0,
                        IF IsLower(Mode) THEN actual_kc - st.j2 - actualPanelWidth
                        ELSE st.j2)
             EXCEPT !.k = 0],
            actual_mc, actual_k2 + st.j2, actualPanelWidth),
        actual_mc, actual_k2 + st.j2, actualPanelWidth)

RECURSIVE right_small_panels(_, _, _, _, _, _, _)
\* the loop over j2: downwards from the last small panel for a lower operand,
\* upwards from 0 for an upper one
right_small_panels(Mode, tri, st, actual_k2, actual_kc, actual_mc, SmallPanelWidth) ==
    IF (IF IsLower(Mode) THEN st.j2 >= 0 ELSE st.j2 < actual_kc)
    THEN right_small_panels(Mode, tri,
            [right_small_panel(Mode, tri, st, actual_k2, actual_kc, actual_mc,
                               Min(actual_kc - st.j2, SmallPanelWidth))
             EXCEPT !.j2 = IF IsLower(Mode) THEN @ - SmallPanelWidth
                           ELSE @ + SmallPanelWidth],
            actual_k2, actual_kc, actual_mc, SmallPanelWidth)
    ELSE st

\* the update of the columns beside the block: other(i2.., startPanel..) +=
\* blockA * geb
right_geb_update(s1, actual_mc, actual_kc, startPanel, rs) ==
    IF rs > 0
    THEN [s1 EXCEPT !.other = gebp_at(@, s1.i2, startPanel, s1.blockA, s1.geb,
                                      actual_mc, actual_kc, rs, 0, 0),
                    !.trace = Append(@, <<"geb", s1.i2, startPanel, rs>>)]
    ELSE s1

\* Faulty variant: the last small panel of a lower operand is taken as a
\* whole one, whatever is left of actual_kc
right_row_block_whole_panels(Mode, tri, st, actual_k2, actual_kc, actual_mc, startPanel, rs, SmallPanelWidth) ==
    right_geb_update(
        right_small_panels(Mode, tri,
            [st EXCEPT !.j2 = IF IsLower(Mode) THEN actual_kc - SmallPanelWidth ELSE 0],
            actual_k2, actual_kc, actual_mc, SmallPanelWidth),
        actual_mc, actual_kc, startPanel, rs)

\* the body of the loop over i2: one block of actual_mc rows of other
right_row_block(Mode, tri, st, actual_k2, actual_kc, actual_mc, startPanel, rs, SmallPanelWidth) ==
    right_geb_update(
        right_small_panels(Mode, tri,
            [st EXCEPT !.j2 = IF IsLower(Mode)
                              THEN actual_kc - (IF actual_kc % SmallPanelWidth # 0
                                                THEN actual_kc % SmallPanelWidth
                                                ELSE SmallPanelWidth)
                              ELSE 0],
            actual_k2, actual_kc, actual_mc, SmallPanelWidth),
        actual_mc, actual_kc, startPanel, rs)

RECURSIVE right_row_blocks(_, _, _, _, _, _, _, _, _)
\* the loop over i2 = 0, mc, ... < rows
right_row_blocks(Mode, tri, st, mc, actual_k2, actual_kc, startPanel, rs, SmallPanelWidth) ==
    IF st.i2 >= Rows(st.other) THEN st
    ELSE right_row_blocks(Mode, tri,
            [right_row_block(Mode, tri, st, actual_k2, actual_kc,
                             Min(mc, Rows(st.other) - st.i2), startPanel, rs,
                             SmallPanelWidth)
             EXCEPT !.i2 = @ + mc],
            mc, actual_k2, actual_kc, startPanel, rs, SmallPanelWidth)

\* the body of the loop over k2: pack geb and the triangular panels, then
\* solve every block of rows
right_panel(Mode, tri, st, mc, actual_k2, actual_kc, startPanel, rs, SmallPanelWidth) ==
    right_row_blocks(Mode, tri,
        [st EXCEPT !.geb = right_pack_geb(tri, actual_k2, startPanel, actual_kc, rs),
                   !.blockB = right_pack_panels(Mode, tri, actual_k2, actual_kc,
                                                SmallPanelWidth),
                   !.trace = Append(@, <<"panel", actual_k2, actual_kc>>),
                   !.i2 = 0],
        mc, actual_k2, actual_kc, startPanel, rs, SmallPanelWidth)

\* actual_kc, actual_k2, startPanel and rs of the iteration at k2
right_panel_at(Mode, tri, st, mc, actual_kc, SmallPanelWidth) ==
    right_panel(Mode, tri, st, mc,
                IF IsLower(Mode) THEN st.k2 - actual_kc ELSE st.k2,
                actual_kc,
                IF IsLower(Mode) THEN 0 ELSE st.k2 + actual_kc,
                IF IsLower(Mode) THEN st.k2 - actual_kc
                ELSE Rows(tri) - st.k2 - actual_kc,
                SmallPanelWidth)

RECURSIVE right_panels(_, _, _, _, _, _)
\* the loop over k2: from size down for a lower operand, from 0 up for an
\* upper one
right_panels(Mode, tri, st, kc, mc, SmallPanelWidth) ==
    IF (IF IsLower(Mode) THEN st.k2 > 0 ELSE st.k2 < Rows(tri))
    THEN right_panels(Mode, tri,
            [right_panel_at(Mode, tri, st, mc,
                            Min(IF IsLower(Mode) THEN st.k2 ELSE Rows(tri) - st.k2, kc),
                            SmallPanelWidth)
             EXCEPT !.k2 = IF IsLower(Mode) THEN @ - kc ELSE @ + kc],
            kc, mc, SmallPanelWidth)
    ELSE st

\* run(size, rows, tri, other) with the blocking sizes kc and mc
triangular_solve_right(Mode, TriStorageOrder, tri, other, kc, mc, SmallPanelWidth) ==
    run_return(
        right_panels(Mode, tri,
                     [other |-> other, blockA |-> ei_aligned_stack_new(mc, kc),
                      blockB |-> <<>>, geb |-> <<>>,
                      heap |-> run_enter(kc, mc, Rows(tri)),
                      trace |-> <<>>,
                      k2 |-> IF IsLower(Mode) THEN Rows(tri) ELSE 0,
                      i2 |-> 0, j2 |-> 0, k |-> 0],
                     kc, mc, SmallPanelWidth),
        kc, mc, Rows(tri))

(***************************************************************************)
(* Storage orders.  A dense matrix lies in a buffer with its outer stride  *)
(* equal to its inner dimension; a data mapper reads the buffer in an      *)
(* order of its own.                                                       *)
(***************************************************************************)
\* the buffer of the rows x cols matrix M stored in the given order
Buffer(M, order) ==
    [a \in 0..(Rows(M) * Cols(M) - 1) |->
        IF order = "ColMajor" THEN M[a % Rows(M)][a \div Rows(M)]
        ELSE M[a \div Cols(M)][a % Cols(M)]]

\* ei_blas_data_mapper<order>(data, stride) read at (i, j), i < rows, j < cols
blas_data_mapper(data, order, stride, rows, cols) ==
    [i \in 0..(rows - 1) |-> [j \in 0..(cols - 1) |->
        data[IF order = "ColMajor" THEN i + j * stride ELSE i * stride + j]]]

FlipSide(Side) == IF Side = "OnTheLeft" THEN "OnTheRight" ELSE "OnTheLeft"

\* (Mode & UnitDiag) | ((Mode & Upper) ? Lower : Upper)
FlipMode(Mode) ==
    IF Mode = "Lower" THEN "Upper"
    ELSE IF Mode = "Upper" THEN "Lower"
    ELSE IF Mode = "UnitLower" THEN "UnitUpper"
    ELSE "UnitLower"

FlipOrder(order) == IF order = "RowMajor" THEN "ColMajor" ELSE "RowMajor"

\* Faulty variant: the re-dispatch keeps the storage order of the triangular
\* operand
run_RowMajor_keeping_order(Side, Mode, TriStorageOrder, size, otherSize, u_tri, u_other, kc, mc, SmallPanelWidth) ==
    [Side |-> FlipSide(Side), Mode |-> FlipMode(Mode),
     TriStorageOrder |-> TriStorageOrder,
     size |-> size, otherSize |-> otherSize, u_tri |-> u_tri, u_other |-> u_other,
     kc |-> kc, mc |-> mc, SmallPanelWidth |-> SmallPanelWidth]

\* ei_triangular_solve_matrix<..., RowMajor>::run: the arguments of the call
\* it makes on the column-major kernel
run_RowMajor(Side, Mode, TriStorageOrder, size, otherSize, u_tri, u_other, kc, mc, SmallPanelWidth) ==
    [Side |-> FlipSide(Side), Mode |-> FlipMode(Mode),
     TriStorageOrder |-> FlipOrder(TriStorageOrder),
     size |-> size, otherSize |-> otherSize, u_tri |-> u_tri, u_other |-> u_other,
     kc |-> kc, mc |-> mc, SmallPanelWidth |-> SmallPanelWidth]

\* ei_triangular_solve_matrix<..., ColMajor>::run on the buffers: the solver
\* state at the return, its `other` being the mapped view of the buffer
run_ColMajor(Side, Mode, TriStorageOrder, size, otherSize, u_tri, u_other, kc, mc, SmallPanelWidth) ==
    IF Side = "OnTheLeft"
    THEN triangular_solve_left(Mode, TriStorageOrder,
             blas_data_mapper(u_tri, TriStorageOrder, size, size, size),
             blas_data_mapper(u_other, "ColMajor", size, size, otherSize),
             otherSize, kc, mc, SmallPanelWidth)
    ELSE triangular_solve_right(Mode, TriStorageOrder,
             blas_data_mapper(u_tri, TriStorageOrder, size, size, size),
             blas_data_mapper(u_other, "ColMajor", otherSize, otherSize, size),
             kc, mc, SmallPanelWidth)

\* run_ColMajor on the arguments c
run_call(c) ==
    run_ColMajor(c.Side, c.Mode, c.TriStorageOrder, c.size, c.otherSize, c.u_tri,
                 c.u_other, c.kc, c.mc, c.SmallPanelWidth)

\* the dispatch on the storage order of the other operand: the solver state
\* at the return of the column-major kernel that ran
triangular_solve_matrix(Side, Mode, TriStorageOrder, OtherStorageOrder, size, otherSize, u_tri, u_other, kc, mc, SmallPanelWidth) ==
    IF OtherStorageOrder = "RowMajor"
    THEN run_call(run_RowMajor(Side, Mode, TriStorageOrder, size, otherSize,
                               u_tri, u_other, kc, mc, SmallPanelWidth))
    ELSE run_ColMajor(Side, Mode, TriStorageOrder, size, otherSize, u_tri,
                      u_other, kc, mc, SmallPanelWidth)

\* the rows x cols matrix of the given order whose buffer the kernel state st
\* worked on as a column-major one
OtherOf(OtherStorageOrder, st, rows, cols) ==
    IF OtherStorageOrder = "ColMajor" THEN st.other
    ELSE blas_data_mapper(Buffer(st.other, "ColMajor"), "RowMajor", cols, rows, cols)

(***************************************************************************)
(* Blocking sizes (computeProductBlockingSizes, ei_product_blocking_traits)*)
(***************************************************************************)
\* the largest kc and mc the cache model allows, and max(mr, nr)
Max_kc == 8

Max_mc == 8

SmallPanelWidth == 4

\* TriangularView<Mode>::solveInPlace(other), in place, column-major other
solveInPlace(Mode, TriStorageOrder, tri, other) ==
    triangular_solve_left(Mode, TriStorageOrder, tri, other, Cols(other),
                          Min(Rows(tri), Max_kc), Min(Rows(tri), Max_mc),
                          SmallPanelWidth).other

\* solveInPlace(other) for an `other` of either storage order: a row-major
\* one goes through ei_triangular_solve_matrix<..., RowMajor>::run on its buffer
solveInPlaceRun(Mode, TriStorageOrder, OtherStorageOrder, tri, other) ==
    IF OtherStorageOrder = "ColMajor"
    THEN triangular_solve_left(Mode, TriStorageOrder, tri, other, Cols(other),
                               Min(Rows(tri), Max_kc), Min(Rows(tri), Max_mc),
                               SmallPanelWidth)
    ELSE triangular_solve_matrix("OnTheLeft", Mode, TriStorageOrder, "RowMajor",
             Rows(tri), Cols(other), Buffer(tri, TriStorageOrder),
             Buffer(other, "RowMajor"),
             Min(Rows(tri), Max_kc), Min(Rows(tri), Max_mc), SmallPanelWidth)

(***************************************************************************)
(* ei_partial_lu_impl::blocked_lu                                          *)
(***************************************************************************)
\* row(a).swap(row(b)) on the columns c0 .. c0+nc-1 only
SwapRowsIn(M, a, b, c0, nc) ==
    [i \in DOMAIN M |-> [j \in DOMAIN M[i] |->
        IF j >= c0 /\ j < c0 + nc
        THEN (IF i = a THEN M[b][j] ELSE IF i = b THEN M[a][j] ELSE M[i][j])
        ELSE M[i][j]]]

RECURSIVE apply_to_A_0_local(_, _, _, _)
\* Faulty variant: the transpositions of the panel are not made global
apply_to_A_0_local(s, k, i, bs) ==
    IF i >= k + bs THEN s
    ELSE IF s.row_transpositions[i] = i
         THEN apply_to_A_0_local(s, k, i + 1, bs)
         ELSE apply_to_A_0_local([s EXCEPT !.lu = SwapRowsIn(@, i, s.row_transpositions[i],
                                                             0, k)],
                                 k, i + 1, bs)

RECURSIVE apply_to_A_0(_, _, _, _)
\* for i = k .. k+bs-1: piv = (row_transpositions[i] += k); A_0.row(i).swap(A_0.row(piv))
\* (a row swapped with itself is left as it is)
apply_to_A_0(s, k, i, bs) ==
    IF i >= k + bs THEN s
    ELSE IF s.row_transpositions[i] + k = i
         THEN apply_to_A_0([s EXCEPT !.row_transpositions[i] = @ + k], k, i + 1, bs)
         ELSE apply_to_A_0([s EXCEPT !.row_transpositions[i] = @ + k,
                                     !.lu = SwapRowsIn(@, i, s.row_transpositions[i] + k,
                                                       0, k)],
                           k, i + 1, bs)

RECURSIVE apply_to_A_2(_, _, _, _, _)
\* for i = k .. k+bs-1: A_2.row(i).swap(A_2.row(row_transpositions[i]))
apply_to_A_2(s, k, i, bs, tsize) ==
    IF i >= k + bs THEN s
    ELSE IF s.row_transpositions[i] = i
         THEN apply_to_A_2(s, k, i + 1, bs, tsize)
         ELSE apply_to_A_2([s EXCEPT !.lu = SwapRowsIn(@, i, s.row_transpositions[i],
                                                       k + bs, tsize)],
                           k, i + 1, bs, tsize)

\* A22.noalias() -= A21 * A12
rank_update(lu, k, bs, trows, tsize) ==
    LET A21 == Block(lu, k + bs, k, trows, bs)
        A12 == Block(lu, k, k + bs, bs, tsize)
        P   == MatMul(A21, A12)
    IN  [i \in DOMAIN lu |-> [j \in DOMAIN lu[i] |->
            IF i >= k + bs /\ i < k + bs + trows /\ j >= k + bs /\ j < k + bs + tsize
            THEN RSub(lu[i][j], P[i - k - bs][j - k - bs]) ELSE lu[i][j]]]

\* A22 -= A21 * A12 on the A12 the solver run st left; what the run left
\* allocated stays allocated
blocked_solved(StorageOrder, s3, k, bs, trows, tsize, st) ==
    [s3 EXCEPT !.lu = rank_update(
                   SetBlock(@, k, k + bs, OtherOf(StorageOrder, st, bs, tsize)),
                   k, bs, trows, tsize),
               !.scratch = @ \cup st.heap.live]

\* Faulty variant: A22 -= A21 * A12 is taken before A12 is solved
blocked_trailing_update_first(StorageOrder, s3, k, bs, trows, tsize) ==
    LET updated == rank_update(s3.lu, k, bs, trows, tsize)
        st == solveInPlaceRun("UnitLower", StorageOrder, StorageOrder,
                              Block(updated, k, k, bs, bs),
                              Block(updated, k, k + bs, bs, tsize))
    IN  [s3 EXCEPT !.lu = SetBlock(updated, k, k + bs,
                                   OtherOf(StorageOrder, st, bs, tsize)),
                   !.scratch = @ \cup st.heap.live]

\* A12 = A11^-1 A12 and A22 -= A21 * A12, on the state s3 after the row swaps
blocked_trailing(StorageOrder, s3, k, bs, trows, tsize) ==
    blocked_solved(StorageOrder, s3, k, bs, trows, tsize,
        solveInPlaceRun("UnitLower", StorageOrder, StorageOrder,
                        Block(s3.lu, k, k, bs, bs),
                        Block(s3.lu, k, k + bs, bs, tsize)))

\* the end of an iteration, s2 being the state after the swaps in A_0
blocked_finish(StorageOrder, s2, k, blockSize, bs) ==
    LET rows  == Rows(s2.lu)
        size  == Min(rows, Cols(s2.lu))
        trows == rows - k - bs
        tsize == size - k - bs
    IN  [(IF trows # 0
          THEN blocked_trailing(StorageOrder, apply_to_A_2(s2, k, k, bs, tsize), k, bs,
                                trows, tsize)
          ELSE s2)
         EXCEPT !.k = k + blockSize,
                !.pc = IF k + blockSize < size THEN "loop" ELSE "done"]

\* s after the recursive call on the panel at (k, k) returned: the panel's
\* coefficients and its (panel-local) transpositions are in place
panel_returned(s, k, bs, panel) ==
    [s EXCEPT !.lu = SetBlock(@, k, k, panel.lu),
              !.row_transpositions =
                  [i \in DOMAIN @ |-> IF i >= k /\ i < k + bs
                                      THEN panel.row_transpositions[i - k] ELSE @[i]],
              !.ndiv = @ + panel.ndiv,
              !.divzero = @ \/ panel.divzero,
              !.pivots = @ \cup {<<k + p[1], k + p[2]>> : p \in panel.pivots},
              !.scratch = @ \cup panel.scratch]

\* Faulty variant: on a failed panel the remaining transpositions are not set
blocked_after_panel_no_fill(StorageOrder, s, k, blockSize, bs, panel) ==
    IF ~panel.ret
    THEN [panel_returned(s, k, bs, panel) EXCEPT !.ret = FALSE, !.pc = "done"]
    ELSE blocked_finish(StorageOrder,
             apply_to_A_0([panel_returned(s, k, bs, panel) EXCEPT
                              !.nb_transpositions = @ + panel.nb_transpositions],
                          k, k, bs),
             k, blockSize, bs)

\* the iteration after the call on the panel
blocked_after_panel(StorageOrder, s, k, blockSize, bs, panel) ==
    IF ~panel.ret
    THEN [panel_returned(s, k, bs, panel) EXCEPT
             !.row_transpositions =
                 [i \in DOMAIN @ |->
                     IF i >= k /\ i < Min(Rows(s.lu), Cols(s.lu)) THEN i ELSE @[i]],
             !.ret = FALSE, !.pc = "done"]
    ELSE blocked_finish(StorageOrder,
             apply_to_A_0([panel_returned(s, k, bs, panel) EXCEPT
                              !.nb_transpositions = @ + panel.nb_transpositions],
                          k, k, bs),
             k, blockSize, bs)

RECURSIVE blocked_lu(_, _, _, _)

\* the panel of the block at column k: all the rows from k down, bs columns
panel_of(s, k, bs) == Block(s.lu, k, k, Rows(s.lu) - k, bs)

\* one iteration of the loop over the blocks, for the block starting at column k
blocked_step(StorageOrder, s, k, blockSize) ==
    blocked_after_panel(StorageOrder, s, k, blockSize,
        Min(Min(Rows(s.lu), Cols(s.lu)) - k, blockSize),
        blocked_lu(StorageOrder,
                   panel_of(s, k, Min(Min(Rows(s.lu), Cols(s.lu)) - k, blockSize)),
                   [i \in 0..(Min(Min(Rows(s.lu), Cols(s.lu)) - k, blockSize) - 1) |->
                       s.row_transpositions[k + i]],
                   16))

RECURSIVE blocked_run(_, _, _)
blocked_run(StorageOrder, s, blockSize) ==
    IF s.pc = "done" THEN s
    ELSE blocked_run(StorageOrder, blocked_step(StorageOrder, s, s.k, blockSize), blockSize)

\* Faulty variant: the width is not raised to 8
blockSizeFor_without_max(size, maxBlockSize) ==
    Min(((size \div 8) \div 16) * 16, maxBlockSize)

\* the block width chosen for a matrix of the given size
blockSizeFor(size, maxBlockSize) ==
    Min(Max(((size \div 8) \div 16) * 16, 8), maxBlockSize)

blocked_lu(StorageOrder, lu, row_transpositions, maxBlockSize) ==
    LET size == Min(Rows(lu), Cols(lu))
    IN  IF size <= 16
        THEN unblocked_lu(lu, row_transpositions)
        ELSE blocked_run(StorageOrder, unblocked_begin(lu, row_transpositions),
                         blockSizeFor(size, maxBlockSize))

(***************************************************************************)
(* PermutationMatrix: indices[j] is the row of the 1 in column j           *)
(***************************************************************************)
setIdentity(size) == [i \in 0..(size - 1) |-> i]

\* P * T(i, j): the columns i and j of P are exchanged
applyTranspositionOnTheRight(indices, i, j) ==
    [c \in DOMAIN indices |-> IF c = i THEN indices[j]
                              ELSE IF c = j THEN indices[i] ELSE indices[c]]

\* the product P * M: row i of M becomes row indices[i] of the result
PermTimes(indices, M) ==
    [r \in DOMAIN M |-> M[CHOOSE i \in DOMAIN indices : indices[i] = r]]

\* P.inverse()
PermInverse(indices) ==
    [r \in DOMAIN indices |-> CHOOSE i \in DOMAIN indices : indices[i] = r]

(***************************************************************************)
(* PartialPivLU                                                            *)
(***************************************************************************)
\* PartialPivLU(): the object before any compute
PartialPivLU_default ==
    [m_lu |-> <<>>, m_p |-> <<>>, m_rowsTranspositions |-> <<>>, m_det_p |-> 0,
     m_isInitialized |-> FALSE]

\* m_rowsTranspositions.resize(size): the coefficients are kept when the
\* size does not change and are undefined otherwise
resize(v, size) ==
    IF Cardinality(DOMAIN v) = size /\ DOMAIN v = 0..(size - 1) THEN v
    ELSE [i \in 0..(size - 1) |-> Uninit]

\* what a caller of the void ei_partial_lu_inplace gets: lu, the
\* transpositions and their number; the value blocked_lu returned is dropped
drop_ret(r) ==
    [lu |-> r.lu, row_transpositions |-> r.row_transpositions,
     nb_transpositions |-> r.nb_transpositions]

ei_partial_lu_inplace(StorageOrder, lu, row_transpositions) ==
    drop_ret(blocked_lu(StorageOrder, lu, row_transpositions, 256))

RECURSIVE build_p_copying(_, _, _)
\* Faulty variant: entry k takes the value of entry rt[k], which is kept
build_p_copying(indices, row_transpositions, k) ==
    IF k < 0 THEN indices
    ELSE IF indices[k] = indices[row_transpositions[k]]
         THEN build_p_copying(indices, row_transpositions, k - 1)
         ELSE build_p_copying([indices EXCEPT ![k] = indices[row_transpositions[k]]],
                              row_transpositions, k - 1)

RECURSIVE build_p_ascending(_, _, _)
\* Faulty variant: the transpositions are applied for k = 0 up to size-1
build_p_ascending(indices, row_transpositions, k) ==
    IF k < 0 THEN indices
    ELSE IF indices[Cardinality(DOMAIN indices) - 1 - k]
              = indices[row_transpositions[Cardinality(DOMAIN indices) - 1 - k]]
         THEN build_p_ascending(indices, row_transpositions, k - 1)
         ELSE build_p_ascending(
                  applyTranspositionOnTheRight(indices,
                      Cardinality(DOMAIN indices) - 1 - k,
                      row_transpositions[Cardinality(DOMAIN indices) - 1 - k]),
                  row_transpositions, k - 1)

RECURSIVE build_p(_, _, _)
\* for k = size-1 down to 0: m_p.applyTranspositionOnTheRight(k, rt[k]);
\* exchanging two equal coefficients leaves the indices as they are
build_p(indices, row_transpositions, k) ==
    IF k < 0 THEN indices
    ELSE IF indices[k] = indices[row_transpositions[k]]
         THEN build_p(indices, row_transpositions, k - 1)
         ELSE build_p(applyTranspositionOnTheRight(indices, k, row_transpositions[k]),
                      row_transpositions, k - 1)

\* Faulty variant: the parity of the transpositions is not looked at
compute_finish_unsigned(r, size) ==
    [m_lu |-> r.lu,
     m_p |-> build_p(setIdentity(size), r.row_transpositions, size - 1),
     m_rowsTranspositions |-> r.row_transpositions,
     m_det_p |-> 1,
     m_isInitialized |-> TRUE]

\* Faulty variant: the object is not marked as initialized
compute_finish_unmarked(r, size) ==
    [m_lu |-> r.lu,
     m_p |-> build_p(setIdentity(size), r.row_transpositions, size - 1),
     m_rowsTranspositions |-> r.row_transpositions,
     m_det_p |-> IF r.nb_transpositions % 2 # 0 THEN -1 ELSE 1,
     m_isInitialized |-> FALSE]

\* the end of compute, r being what ei_partial_lu_inplace left
compute_finish(r, size) ==
    [m_lu |-> r.lu,
     m_p |-> build_p(setIdentity(size), r.row_transpositions, size - 1),
     m_rowsTranspositions |-> r.row_transpositions,
     m_det_p |-> IF r.nb_transpositions % 2 # 0 THEN -1 ELSE 1,
     m_isInitialized |-> TRUE]

\* Faulty variant: the sign of the previous factorization is carried over
compute_keeping_sign(StorageOrder, dec, matrix) ==
    [compute_finish(ei_partial_lu_inplace(StorageOrder, matrix,
                                          resize(dec.m_rowsTranspositions, Rows(matrix))),
                    Rows(matrix))
     EXCEPT !.m_det_p = IF dec.m_isInitialized THEN dec.m_det_p * @ ELSE @]

\* PartialPivLU::compute on a square matrix
compute(StorageOrder, dec, matrix) ==
    compute_finish(ei_partial_lu_inplace(StorageOrder, matrix,
                                         resize(dec.m_rowsTranspositions, Rows(matrix))),
                   Rows(matrix))

RECURSIVE diagonal_prod(_, _, _)
\* m_lu.diagonal().prod(), over the entries lo .. hi; exact, taken by halves
diagonal_prod(M, lo, hi) ==
    IF lo > hi THEN One
    ELSE IF lo = hi THEN M[lo][lo]
    ELSE RMul(diagonal_prod(M, lo, (lo + hi) \div 2),
              diagonal_prod(M, ((lo + hi) \div 2) + 1, hi))

determinant(dec) ==
    RMul(RInt(dec.m_det_p), diagonal_prod(dec.m_lu, 0, Rows(dec.m_lu) - 1))

\* triangularView<UnitLower>().toDenseMatrix() and triangularView<Upper>()
UnitLowerPart(M) ==
    [i \in DOMAIN M |-> [j \in DOMAIN M[i] |->
        IF i = j THEN One ELSE IF i > j THEN M[i][j] ELSE Zero]]

UpperPart(M) ==
    [i \in DOMAIN M |-> [j \in DOMAIN M[i] |-> IF i <= j THEN M[i][j] ELSE Zero]]

reconstructedMatrix(dec) ==
    PermTimes(PermInverse(dec.m_p), MatMul(UnitLowerPart(dec.m_lu), UpperPart(dec.m_lu)))

\* Faulty variant: the right-hand side is not permuted
evalTo_unpermuted(StorageOrder, dec, rhs) ==
    solveInPlace("Upper", StorageOrder, dec.m_lu,
                 solveInPlace("UnitLower", StorageOrder, dec.m_lu, rhs))

\* ei_solve_retval<PartialPivLU, Rhs>::evalTo: dst = P rhs, then L, then U
evalTo(StorageOrder, dec, rhs) ==
    LET c == PermTimes(dec.m_p, rhs)
        y == solveInPlace("UnitLower", StorageOrder, dec.m_lu, c)
    IN  solveInPlace("Upper", StorageOrder, dec.m_lu, y)

inverse(StorageOrder, dec) ==
    evalTo(StorageOrder, dec, Identity(Rows(dec.m_lu)))

\* Faulty variant: the constructor marks the object as initialized
PartialPivLU_size_marked(size) ==
    [m_lu |-> [i \in 0..(size - 1) |-> [j \in 0..(size - 1) |-> NaN]],
     m_p |-> [i \in 0..(size - 1) |-> Uninit],
     m_rowsTranspositions |-> [i \in 0..(size - 1) |-> Uninit],
     m_det_p |-> 0,
     m_isInitialized |-> TRUE]

\* PartialPivLU(Index size): storage of the given size, nothing written yet
PartialPivLU_size(size) ==
    [m_lu |-> [i \in 0..(size - 1) |-> [j \in 0..(size - 1) |-> NaN]],
     m_p |-> [i \in 0..(size - 1) |-> Uninit],
     m_rowsTranspositions |-> [i \in 0..(size - 1) |-> Uninit],
     m_det_p |-> 0,
     m_isInitialized |-> FALSE]

(***************************************************************************)
(* The calls of the public interface.  Each gives what the call leaves:    *)
(* the object, the caller's argument, whether an ei_assert of the call     *)
(* failed and, when none did, the value returned.                          *)
(***************************************************************************)
call_matrixLU(dec) ==
    IF ~dec.m_isInitialized THEN [dec |-> dec, assert |-> TRUE]
    ELSE [dec |-> dec, assert |-> FALSE, val |-> dec.m_lu]

call_permutationP(dec) ==
    IF ~dec.m_isInitialized THEN [dec |-> dec, assert |-> TRUE]
    ELSE [dec |-> dec, assert |-> FALSE, val |-> dec.m_p]

\* Faulty variant: the solution is written over the right-hand side too
call_solve_in_rhs(StorageOrder, dec, rhs) ==
    IF ~dec.m_isInitialized \/ Rows(rhs) # Rows(dec.m_lu)
    THEN [dec |-> dec, rhs |-> rhs, assert |-> TRUE]
    ELSE [dec |-> dec, rhs |-> evalTo(StorageOrder, dec, rhs), assert |-> FALSE,
          val |-> evalTo(StorageOrder, dec, rhs)]

\* solve(b) evaluated into a destination: the assertion of solve, then the
\* one of evalTo on the number of rows
call_solve(StorageOrder, dec, rhs) ==
    IF ~dec.m_isInitialized \/ Rows(rhs) # Rows(dec.m_lu)
    THEN [dec |-> dec, rhs |-> rhs, assert |-> TRUE]
    ELSE [dec |-> dec, rhs |-> rhs, assert |-> FALSE,
          val |-> evalTo(StorageOrder, dec, rhs)]

call_inverse(StorageOrder, dec) ==
    IF ~dec.m_isInitialized THEN [dec |-> dec, assert |-> TRUE]
    ELSE [dec |-> dec, assert |-> FALSE, val |-> inverse(StorageOrder, dec)]

call_determinant(dec) ==
    IF ~dec.m_isInitialized THEN [dec |-> dec, assert |-> TRUE]
    ELSE [dec |-> dec, assert |-> FALSE, val |-> determinant(dec)]

call_reconstructedMatrix(dec) ==
    IF ~dec.m_isInitialized THEN [dec |-> dec, assert |-> TRUE]
    ELSE [dec |-> dec, assert |-> FALSE, val |-> reconstructedMatrix(dec)]

\* compute on a matrix that is not square, in a build without assertions:
\* the entries of m_rowsTranspositions that blocked_lu does not write keep
\* whatever resize left, read here as the values garbage[i]
compute_unchecked(StorageOrder, dec, matrix, garbage) ==
    LET r == ei_partial_lu_inplace(StorageOrder, matrix,
                                   resize(dec.m_rowsTranspositions, Rows(matrix)))
    IN  compute_finish(
            [r EXCEPT !.row_transpositions =
                 [i \in DOMAIN @ |-> IF i >= Cols(matrix) THEN garbage[i] ELSE @[i]]],
            Rows(matrix))

\* compute(matrix): m_lu = matrix comes first, the assertion on the shape
\* second.  On a matrix that is not square the outcomes are the failed
\* assertion and, in a build without assertions, the run on the matrix
call_compute(StorageOrder, dec, matrix) ==
    IF Rows(matrix) = Cols(matrix)
    THEN {[dec |-> compute(StorageOrder, dec, matrix), matrix |-> matrix,
           assert |-> FALSE]}
    ELSE {[dec |-> [dec EXCEPT !.m_lu = matrix], matrix |-> matrix, assert |-> TRUE]}
         \cup {[dec |-> compute_unchecked(StorageOrder, dec, matrix, g),
                matrix |-> matrix, assert |-> FALSE] :
                  g \in [0..(Rows(matrix) - 1) -> 0..(Rows(matrix) - 1)]}

(***************************************************************************)
(* Inputs                                                                  *)
(***************************************************************************)
\* coefficients of the small dense inputs range over -MaxEntry .. MaxEntry
MaxEntry == 1

\* free coefficients of the embedded cores range over 0 .. MaxCore
MaxCore == 2

\* the size of the inputs of the blocked regime (blocked_lu blocks above 16)
BlockedSize == 17

\* right-hand sides have 1 .. MaxRhsCols columns
MaxRhsCols == 2

\* the block widths blocked_lu is called with, besides the default 256
MaxBlock == 3

SmallOfSize(n) ==
    {[i \in 0..(n - 1) |-> [j \in 0..(n - 1) |-> RInt(f[i][j])]] :
        f \in [0..(n - 1) -> [0..(n - 1) -> (-MaxEntry)..MaxEntry]]}

SmallInputs == UNION {SmallOfSize(n) : n \in 1..2}

\* the scenario matrix [[2,1],[4,3]]
ScenarioA == <<<<2, 1>>, <<4, 3>>>>

Scenario == [i \in 0..1 |-> [j \in 0..1 |-> RInt(ScenarioA[i + 1][j + 1])]]

\* the identity of size n with the 3 x 3 core at the rows and columns pos
Embed(n, pos, core) ==
    [i \in 0..(n - 1) |-> [j \in 0..(n - 1) |->
        IF \E a, b \in 1..3 : pos[a] = i /\ pos[b] = j
        THEN LET a == CHOOSE a \in 1..3 : pos[a] = i
                 b == CHOOSE b \in 1..3 : pos[b] = j
             IN  RInt(core[a][b])
        ELSE IF i = j THEN One ELSE Zero]]

Cores ==
    {<<<<a, 1, b>>, <<c, 1, 1>>, r>> :
        a \in 0..MaxCore, b \in 0..MaxCore, c \in 0..MaxCore,
        r \in {<<2, 1, 1>>, <<0, 1, 2>>}}

\* the cores straddle the block boundaries of the blocked regime
Positions == {<<6, 7, 8>>, <<7, 8, BlockedSize - 1>>}

EmbeddedInputs == {Embed(BlockedSize, pos, core) : pos \in Positions, core \in Cores}

\* a singular input whose second panel (columns 8 .. 15 at the default block
\* width) exchanges the rows 8 and 9 and then meets a zero pivot in column 10
SingularInPanel == Embed(BlockedSize, <<8, 9, 10>>, <<<<1, 1, 0>>, <<2, 1, 1>>, <<2, 1, 1>>>>)

Inputs == SmallInputs \cup {Scenario} \cup EmbeddedInputs \cup {SingularInPanel}

\* the right-hand side of n ones
Ones(n) == [i \in 0..(n - 1) |-> [j \in 0..0 |-> One]]

\* the vector of ones, and blocks of 1 .. MaxRhsCols columns of -1, 0, 1
RhsChoices(n) ==
    {[i \in 0..(n - 1) |-> [j \in 0..0 |-> One]]}
    \cup {[i \in 0..(n - 1) |-> [j \in 0..(c - 1) |-> RInt((((i + 1) * (j + 2)) % 3) - 1)]] :
            c \in 1..MaxRhsCols}

(***************************************************************************)
(* Reference determinant.  An index whose row and column are both the unit *)
(* vector is dropped (the determinant of a block-diagonal matrix with an   *)
(* identity block is that of the other block); what is left is expanded by *)
(* cofactors along the first row.                                          *)
(***************************************************************************)
IsUnitIndex(M, i) ==
    \A j \in DOMAIN M : M[i][j] = (IF i = j THEN One ELSE Zero)
                        /\ M[j][i] = (IF i = j THEN One ELSE Zero)

\* the principal submatrix of M on the index set K, in increasing order
Principal(M, K) ==
    LET at(a) == CHOOSE i \in K : Cardinality({x \in K : x < i}) = a
    IN  [a \in 0..(Cardinality(K) - 1) |-> [c \in 0..(Cardinality(K) - 1) |->
            M[at(a)][at(c)]]]

Minor(M, c) ==
    [i \in 0..(Rows(M) - 2) |-> [j \in 0..(Rows(M) - 2) |->
        M[i + 1][IF j < c THEN j ELSE j + 1]]]

RECURSIVE CofactorDet(_)
RECURSIVE CofactorSum(_, _)
\* the terms of the expansion for the columns cs of the first row
CofactorSum(M, cs) ==
    IF cs = {} THEN Zero
    ELSE LET c == CHOOSE x \in cs : TRUE
         IN  RAdd(RMul(RMul(RInt(IF c % 2 = 0 THEN 1 ELSE -1), M[0][c]),
                       CofactorDet(Minor(M, c))),
                  CofactorSum(M, cs \ {c}))

CofactorDet(M) ==
    IF Rows(M) = 0 THEN One
    ELSE CofactorSum(M, {c \in 0..(Rows(M) - 1) : ~IsZero(M[0][c])})

Det(M) == CofactorDet(Principal(M, {i \in DOMAIN M : ~IsUnitIndex(M, i)}))

Invertible(M) == ~IsZero(Det(M))

(***************************************************************************)
(* The state machine                                                       *)
(***************************************************************************)
VARIABLES
    matrix,         \* the caller's input matrix
    StorageOrder,   \* the storage order of the matrix type
    dec,            \* the PartialPivLU object
    out,            \* the value the last read operation returned
    returned,       \* what blocked_lu returned inside the last compute
    maxBlockSize,   \* the argument of the direct blocked_lu call
    u,              \* the state of a run of unblocked_lu on matrix
    b,              \* the state of a run of blocked_lu on matrix
    pb,             \* a transposition list and the permutation built from it
    life,           \* the calls made on the object so far (history)
    ts,             \* a call of the triangular solver: operands and result
    cc,             \* threads that share one PartialPivLU object
    um,             \* a call of umeyama: point sets, flag and result
    nest            \* the stack of the blocked_lu calls in progress

vars == <<matrix, StorageOrder, dec, out, returned, maxBlockSize, u, b, pb, life, ts, cc, um, nest>>

UninitVector(n) == [i \in 0..(n - 1) |-> Uninit]

Init ==
    /\ matrix \in Inputs
    /\ StorageOrder = "ColMajor"
    /\ dec = PartialPivLU_default
    /\ out = [op |-> "none"]
    /\ returned = TRUE
    /\ maxBlockSize = 256
    /\ u = unblocked_begin(matrix, UninitVector(Rows(matrix)))
    /\ b = [pc |-> "idle"]
    /\ pb = [pc |-> "idle"]
    /\ life = [pc |-> "idle"]
    /\ cc = [pc |-> "idle"]
    /\ um = [pc |-> "idle"]
    /\ nest = [pc |-> "idle"]
    /\ ts = [pc |-> "idle"]

\* PartialPivLU::compute(matrix)
Compute ==
    /\ ~dec.m_isInitialized
    /\ dec' = compute(StorageOrder, dec, matrix)
    /\ returned' = blocked_lu(StorageOrder, matrix,
                              resize(dec.m_rowsTranspositions, Rows(matrix)), 256).ret
    /\ UNCHANGED <<matrix, StorageOrder, out, maxBlockSize, u, b, pb, life, ts, cc, um, nest>>

\* solve(rhs), evaluated into a destination
Solve ==
    /\ dec.m_isInitialized
    /\ out.op = "none"
    /\ \E rhs \in RhsChoices(Rows(dec.m_lu)) :
          out' = [op |-> "solve", rhs |-> rhs, val |-> evalTo(StorageOrder, dec, rhs)]
    /\ UNCHANGED <<matrix, StorageOrder, dec, returned, maxBlockSize, u, b, pb, life, ts, cc, um, nest>>

Inverse ==
    /\ dec.m_isInitialized
    /\ out.op = "none"
    /\ out' = [op |-> "inverse", val |-> inverse(StorageOrder, dec)]
    /\ UNCHANGED <<matrix, StorageOrder, dec, returned, maxBlockSize, u, b, pb, life, ts, cc, um, nest>>

Determinant ==
    /\ dec.m_isInitialized
    /\ out.op = "none"
    /\ out' = [op |-> "determinant", val |-> determinant(dec)]
    /\ UNCHANGED <<matrix, StorageOrder, dec, returned, maxBlockSize, u, b, pb, life, ts, cc, um, nest>>

ReconstructedMatrix ==
    /\ dec.m_isInitialized
    /\ out.op = "none"
    /\ out' = [op |-> "reconstructedMatrix", val |-> reconstructedMatrix(dec)]
    /\ UNCHANGED <<matrix, StorageOrder, dec, returned, maxBlockSize, u, b, pb, life, ts, cc, um, nest>>

\* one iteration of the loop of unblocked_lu
UnblockedStep ==
    /\ u.pc = "loop"
    /\ u' = unblocked_step(u, u.k)
    /\ UNCHANGED <<matrix, StorageOrder, dec, out, returned, maxBlockSize, b, pb, life, ts, cc, um, nest>>

\* the call blocked_lu(rows, cols, ..., maxBlockSize), up to the loop
BlockedCall ==
    /\ u.pc = "done"
    /\ b.pc = "idle"
    /\ maxBlockSize' \in IF Rows(matrix) > 16 THEN (1..MaxBlock) \cup {256} ELSE {256}
    /\ b' = unblocked_begin(matrix, UninitVector(Rows(matrix)))
    /\ UNCHANGED <<matrix, StorageOrder, dec, out, returned, u, pb, life, ts, cc, um, nest>>

\* the delegation to unblocked_lu, or one iteration of the loop over the blocks
BlockedStep ==
    /\ b.pc = "loop"
    /\ b' = IF Min(Rows(matrix), Cols(matrix)) <= 16
            THEN unblocked_lu(matrix, b.row_transpositions)
            ELSE blocked_step(StorageOrder, b, b.k,
                              blockSizeFor(Min(Rows(matrix), Cols(matrix)), maxBlockSize))
    /\ UNCHANGED <<matrix, StorageOrder, dec, out, returned, maxBlockSize, u, pb, life, ts, cc, um, nest>>

NextFacade == Compute \/ Solve \/ Inverse \/ Determinant \/ ReconstructedMatrix

NextLU == UnblockedStep \/ BlockedCall \/ BlockedStep

\* the facade driven on every input
Spec == Init /\ [][NextFacade]_vars

\* the two factorization routines run on every input
SpecLU == Init /\ [][NextLU]_vars

\* transposition lists have 1 .. MaxPermSize entries
MaxPermSize == 5

\* the lists unblocked_lu can leave: k <= list[k] < size for every k
TranspositionLists ==
    UNION {{l \in [0..(n - 1) -> 0..(n - 1)] : \A k \in 0..(n - 1) : k <= l[k]} :
              n \in 1..MaxPermSize}

\* the Permutation Builder on its own, on every transposition list
InitPerm ==
    /\ matrix = Scenario
    /\ StorageOrder = "ColMajor"
    /\ dec = PartialPivLU_default
    /\ out = [op |-> "none"]
    /\ returned = TRUE
    /\ maxBlockSize = 256
    /\ u = unblocked_begin(matrix, UninitVector(Rows(matrix)))
    /\ b = [pc |-> "idle"]
    /\ pb \in {[pc |-> "list", row_transpositions |-> l] : l \in TranspositionLists}
    /\ life = [pc |-> "idle"]
    /\ cc = [pc |-> "idle"]
    /\ um = [pc |-> "idle"]
    /\ nest = [pc |-> "idle"]
    /\ ts = [pc |-> "idle"]

\* m_p.setIdentity(size); for k = size-1 .. 0: applyTranspositionOnTheRight
PermBuild ==
    /\ pb.pc = "list"
    /\ pb' = [pc |-> "built", row_transpositions |-> pb.row_transpositions,
              m_p |-> build_p(setIdentity(Cardinality(DOMAIN pb.row_transpositions)),
                              pb.row_transpositions,
                              Cardinality(DOMAIN pb.row_transpositions) - 1)]
    /\ UNCHANGED <<matrix, StorageOrder, dec, out, returned, maxBlockSize, u, b, life, ts, cc, um, nest>>

NextPerm == PermBuild

SpecPerm == InitPerm /\ [][NextPerm]_vars

\* the number of calls made on one object
MaxCalls == 2

\* the square matrices compute is called with: invertible and singular ones
\* of the sizes 1 and 2, and two of the blocked regime
LifeInputs ==
    {Scenario, SingularInPanel, Embed(BlockedSize, <<7, 8, BlockedSize - 1>>,
                                      <<<<0, 1, 2>>, <<1, 1, 1>>, <<2, 1, 1>>>>)}
    \cup {[i \in 0..0 |-> [j \in 0..0 |-> RInt(a)]] : a \in {0, 1}}
    \cup {[i \in 0..1 |-> [j \in 0..1 |-> RInt(f[i + 1][j + 1])]] :
             f \in {<<<<0, 1>>, <<1, 0>>>>, <<<<1, 1>>, <<1, 1>>>>, <<<<0, 0>>, <<1, 1>>>>}}

\* matrices that are not square: 1 x 2 and 2 x 1
NonSquareInputs ==
    {[i \in 0..0 |-> [j \in 0..1 |-> RInt(j + 1)]],
     [i \in 0..1 |-> [j \in 0..0 |-> RInt(i + 1)]]}

\* an object right after one of its constructors that do not compute
InitLife ==
    /\ matrix = Scenario
    /\ StorageOrder = "ColMajor"
    /\ dec \in {PartialPivLU_default, PartialPivLU_size(1), PartialPivLU_size(2),
                 PartialPivLU_size(BlockedSize)}
    /\ out = [op |-> "none"]
    /\ returned = TRUE
    /\ maxBlockSize = 256
    /\ u = unblocked_begin(matrix, UninitVector(Rows(matrix)))
    /\ b = [pc |-> "idle"]
    /\ pb = [pc |-> "idle"]
    /\ life = [pc |-> "ready", calls |-> 0, computes |-> 0, prev |-> dec]
    /\ cc = [pc |-> "idle"]
    /\ um = [pc |-> "idle"]
    /\ nest = [pc |-> "idle"]
    /\ ts = [pc |-> "idle"]

\* what a call leaves in life: a call whose assertion failed ends the run,
\* and so does a compute that ran on a matrix that is not square
AfterCall(r, isCompute, square) ==
    [pc |-> IF r.assert THEN "rejected" ELSE IF ~square THEN "undefined" ELSE "ready",
     calls |-> life.calls + 1,
     computes |-> IF isCompute /\ ~r.assert THEN life.computes + 1 ELSE life.computes,
     prev |-> dec]

\* a further call can be made
CanCall == life.pc = "ready" /\ life.calls < MaxCalls

LifeCompute ==
    /\ CanCall
    /\ \E M \in LifeInputs \cup NonSquareInputs :
          \E r \in call_compute(StorageOrder, dec, M) :
             /\ dec' = r.dec
             /\ matrix' = r.matrix
             /\ out' = [op |-> "compute", arg |-> M, assert |-> r.assert]
             /\ life' = AfterCall(r, TRUE, Rows(M) = Cols(M))
    /\ UNCHANGED <<StorageOrder, returned, maxBlockSize, u, b, pb, ts, cc, um, nest>>

\* what the caller of a const member holds after the call
ReadOut(op, r) ==
    IF r.assert THEN [op |-> op, assert |-> TRUE]
    ELSE [op |-> op, assert |-> FALSE, val |-> r.val]

LifeMatrixLU ==
    /\ CanCall
    /\ dec' = call_matrixLU(dec).dec
    /\ out' = ReadOut("matrixLU", call_matrixLU(dec))
    /\ life' = AfterCall(call_matrixLU(dec), FALSE, TRUE)
    /\ UNCHANGED <<matrix, StorageOrder, returned, maxBlockSize, u, b, pb, ts, cc, um, nest>>

LifePermutationP ==
    /\ CanCall
    /\ dec' = call_permutationP(dec).dec
    /\ out' = ReadOut("permutationP", call_permutationP(dec))
    /\ life' = AfterCall(call_permutationP(dec), FALSE, TRUE)
    /\ UNCHANGED <<matrix, StorageOrder, returned, maxBlockSize, u, b, pb, ts, cc, um, nest>>

LifeInverse ==
    /\ CanCall
    /\ \E r \in {call_inverse(StorageOrder, dec)} :
          /\ dec' = r.dec
          /\ out' = ReadOut("inverse", r)
          /\ life' = AfterCall(r, FALSE, TRUE)
    /\ UNCHANGED <<matrix, StorageOrder, returned, maxBlockSize, u, b, pb, ts, cc, um, nest>>

LifeDeterminant ==
    /\ CanCall
    /\ dec' = call_determinant(dec).dec
    /\ out' = ReadOut("determinant", call_determinant(dec))
    /\ life' = AfterCall(call_determinant(dec), FALSE, TRUE)
    /\ UNCHANGED <<matrix, StorageOrder, returned, maxBlockSize, u, b, pb, ts, cc, um, nest>>

LifeReconstructedMatrix ==
    /\ CanCall
    /\ \E r \in {call_reconstructedMatrix(dec)} :
          /\ dec' = r.dec
          /\ out' = ReadOut("reconstructedMatrix", r)
          /\ life' = AfterCall(r, FALSE, TRUE)
    /\ UNCHANGED <<matrix, StorageOrder, returned, maxBlockSize, u, b, pb, ts, cc, um, nest>>

\* solve(rhs) on a right-hand side of the right number of rows, or of one more
LifeSolve ==
    /\ CanCall
    /\ \E rhs \in RhsChoices(Rows(dec.m_lu)) \cup {Ones(Rows(dec.m_lu) + 1)} :
          LET r == call_solve(StorageOrder, dec, rhs)
          IN  /\ dec' = r.dec
              /\ out' = IF r.assert
                        THEN [op |-> "solve", arg |-> rhs, rhs |-> r.rhs, assert |-> TRUE]
                        ELSE [op |-> "solve", arg |-> rhs, rhs |-> r.rhs, assert |-> FALSE,
                              val |-> r.val]
              /\ life' = AfterCall(r, FALSE, TRUE)
    /\ UNCHANGED <<matrix, StorageOrder, returned, maxBlockSize, u, b, pb, ts, cc, um, nest>>

NextLife ==
    \/ LifeCompute
    \/ LifeMatrixLU
    \/ LifePermutationP
    \/ LifeSolve
    \/ LifeInverse
    \/ LifeDeterminant
    \/ LifeReconstructedMatrix

\* every sequence of at most MaxCalls calls on one object
SpecLife == InitLife /\ [][NextLife]_vars

\* triangular operands have 1 .. MaxTriSize rows and columns
MaxTriSize == 5

\* the other operand has 1 .. MaxTriOther columns (left side) or rows (right)
MaxTriOther == 3

\* the number of coefficient patterns of each operand
TriSeeds == 2

TriModes == {"UnitLower", "Lower", "Upper", "UnitUpper"}

\* the storage of a triangular operand: a full array whose diagonal has no
\* zero and whose two triangles are both filled, so that the solver is handed
\* coefficients its mode tells it to leave unread
TriOperand(size, seed) ==
    [i \in 0..(size - 1) |-> [j \in 0..(size - 1) |->
        IF i = j THEN RInt(<<2, -1, 3>>[((i + seed) % 3) + 1])
        ELSE RInt(((2 * i + 3 * j + seed) % 4) - 1)]]

TriOther(rows, cols, seed) ==
    [i \in 0..(rows - 1) |-> [j \in 0..(cols - 1) |->
        RInt((((i + 1) * (j + 2) + seed) % 3) - 1)]]

\* the matrix the expression tri.triangularView<Mode>() stands for
TriangularView(Mode, tri) ==
    [i \in DOMAIN tri |-> [j \in DOMAIN tri[i] |->
        IF i = j THEN (IF UnitDiag(Mode) THEN One ELSE tri[i][i])
        ELSE IF (IF IsLower(Mode) THEN j < i ELSE j > i) THEN tri[i][j]
        ELSE Zero]]

\* the calls of run(size, otherSize, tri, other) on either side, with every
\* pair of blocking sizes computeProductBlockingSizes can leave
TriCalls ==
    {[pc |-> "ready", Side |-> side, Mode |-> mode, TriStorageOrder |-> order,
      tri |-> TriOperand(size, seed),
      B |-> IF side = "OnTheLeft" THEN TriOther(size, n, seed)
            ELSE TriOther(n, size, seed),
      other |-> IF side = "OnTheLeft" THEN TriOther(size, n, seed)
                ELSE TriOther(n, size, seed),
      OtherStorageOrder |-> "ColMajor", heap |-> NoScratch,
      kc |-> bl[1], mc |-> bl[2], SmallPanelWidth |-> spw, trace |-> <<>>] :
        side \in {"OnTheLeft", "OnTheRight"}, mode \in TriModes,
        order \in {"ColMajor", "RowMajor"},
        size \in 1..MaxTriSize, n \in 1..MaxTriOther, seed \in 0..(TriSeeds - 1),
        bl \in (1..MaxTriSize) \X (1..MaxTriSize), spw \in {2, SmallPanelWidth}}

\* the triangular solver on its own
InitTri ==
    /\ matrix = Scenario
    /\ StorageOrder = "ColMajor"
    /\ dec = PartialPivLU_default
    /\ out = [op |-> "none"]
    /\ returned = TRUE
    /\ maxBlockSize = 256
    /\ u = unblocked_begin(matrix, UninitVector(Rows(matrix)))
    /\ b = [pc |-> "idle"]
    /\ pb = [pc |-> "idle"]
    /\ life = [pc |-> "idle"]
    /\ cc = [pc |-> "idle"]
    /\ um = [pc |-> "idle"]
    /\ nest = [pc |-> "idle"]
    /\ ts \in {c \in TriCalls : c.kc <= Rows(c.tri) /\ c.mc <= Rows(c.tri)}

\* ts after the run that ended in the solver state st
TriReturned(st) ==
    [ts EXCEPT !.pc = "done", !.other = st.other, !.trace = st.trace,
               !.heap = st.heap]

\* ei_triangular_solve_matrix<OnTheLeft, Mode, TriStorageOrder, ColMajor>::run
TriSolveLeft ==
    /\ ts.pc = "ready"
    /\ ts.Side = "OnTheLeft"
    /\ ts.OtherStorageOrder = "ColMajor"
    /\ ts' = TriReturned(triangular_solve_left(ts.Mode, ts.TriStorageOrder, ts.tri,
                             ts.other, Cols(ts.other), ts.kc, ts.mc,
                             ts.SmallPanelWidth))
    /\ UNCHANGED <<matrix, StorageOrder, dec, out, returned, maxBlockSize, u, b, pb, life, cc, um, nest>>

\* ei_triangular_solve_matrix<OnTheRight, Mode, TriStorageOrder, ColMajor>::run
TriSolveRight ==
    /\ ts.pc = "ready"
    /\ ts.Side = "OnTheRight"
    /\ ts.OtherStorageOrder = "ColMajor"
    /\ ts' = TriReturned(triangular_solve_right(ts.Mode, ts.TriStorageOrder, ts.tri,
                             ts.other, ts.kc, ts.mc, ts.SmallPanelWidth))
    /\ UNCHANGED <<matrix, StorageOrder, dec, out, returned, maxBlockSize, u, b, pb, life, cc, um, nest>>

NextTri == TriSolveLeft \/ TriSolveRight

SpecTri == InitTri /\ [][NextTri]_vars

\* the same calls with `other` stored row-major, with the narrow small
\* panel, in one panel (kc = size) and in panels of two rows or columns
RowMajorCalls ==
    {[c EXCEPT !.OtherStorageOrder = "RowMajor"] :
        c \in {c \in TriCalls : /\ c.kc \in {Min(2, Rows(c.tri)), Rows(c.tri)}
                                /\ c.mc = Min(2, Rows(c.tri))
                                /\ c.SmallPanelWidth = 2}}

\* the inputs of the blocked regime with trailing rows, and the small ones
FormatInputs ==
    {Embed(BlockedSize, pos, <<<<a, 1, 1>>, <<c, 1, 1>>, r>>) :
        pos \in Positions, a \in {0, MaxCore}, c \in {0, MaxCore},
        r \in {<<2, 1, 1>>, <<0, 1, 2>>}}
    \cup {SingularInPanel, Scenario}

\* the row-major instantiations: blocked_lu<RowMajor> on every input, and the
\* triangular solver on a row-major `other`
InitFormat ==
    /\ out = [op |-> "none"]
    /\ returned = TRUE
    /\ maxBlockSize = 256
    /\ dec = PartialPivLU_default
    /\ b = [pc |-> "idle"]
    /\ pb = [pc |-> "idle"]
    /\ life = [pc |-> "idle"]
    /\ cc = [pc |-> "idle"]
    /\ um = [pc |-> "idle"]
    /\ nest = [pc |-> "idle"]
    /\ StorageOrder = "RowMajor"
    /\ \/ /\ matrix \in FormatInputs
          /\ u = unblocked_lu(matrix, UninitVector(Rows(matrix)))
          /\ ts = [pc |-> "idle"]
       \/ /\ matrix = Scenario
          /\ u = unblocked_begin(matrix, UninitVector(Rows(matrix)))
          /\ ts \in RowMajorCalls

\* the solver state at the return of the column-major kernel the row-major
\* run re-dispatches to, working on the buffers of ts.tri and ts.other
TriRowMajorRun ==
    run_call(run_RowMajor(ts.Side, ts.Mode, ts.TriStorageOrder, Rows(ts.tri),
                          IF ts.Side = "OnTheLeft" THEN Cols(ts.other)
                          ELSE Rows(ts.other),
                          Buffer(ts.tri, ts.TriStorageOrder),
                          Buffer(ts.other, "RowMajor"),
                          ts.kc, ts.mc, ts.SmallPanelWidth))

\* ei_triangular_solve_matrix<Side, Mode, TriStorageOrder, RowMajor>::run;
\* the caller reads `other` back from its row-major buffer
TriSolveRowMajor ==
    /\ ts.pc = "ready"
    /\ ts.OtherStorageOrder = "RowMajor"
    /\ ts' = [TriReturned(TriRowMajorRun)
               EXCEPT !.other = OtherOf("RowMajor", TriRowMajorRun, Rows(ts.other),
                                        Cols(ts.other))]
    /\ UNCHANGED <<matrix, StorageOrder, dec, out, returned, maxBlockSize, u, b, pb, life, cc, um, nest>>

NextFormat == BlockedCall \/ BlockedStep \/ TriSolveRowMajor

SpecFormat == InitFormat /\ [][NextFormat]_vars

\* the solver calls whose scratch memory is followed: every size of `other`
\* and every mc, with the narrow small panel
ScratchCalls ==
    {c \in TriCalls : /\ c.kc \in {Min(2, Rows(c.tri)), Rows(c.tri)}
                      /\ c.mc <= Rows(c.tri)
                      /\ c.SmallPanelWidth = 2
                      /\ c.TriStorageOrder = "ColMajor"}

\* the factorization of either instantiation on invertible and singular
\* inputs, and the triangular solver on its own
InitScratch ==
    /\ out = [op |-> "none"]
    /\ returned = TRUE
    /\ maxBlockSize = 256
    /\ dec = PartialPivLU_default
    /\ b = [pc |-> "idle"]
    /\ pb = [pc |-> "idle"]
    /\ life = [pc |-> "idle"]
    /\ cc = [pc |-> "idle"]
    /\ um = [pc |-> "idle"]
    /\ nest = [pc |-> "idle"]
    /\ \/ /\ matrix \in FormatInputs
          /\ StorageOrder \in {"ColMajor", "RowMajor"}
          /\ u = unblocked_lu(matrix, UninitVector(Rows(matrix)))
          /\ ts = [pc |-> "idle"]
       \/ /\ matrix = Scenario
          /\ StorageOrder = "ColMajor"
          /\ u = unblocked_begin(matrix, UninitVector(Rows(matrix)))
          /\ ts \in ScratchCalls

NextScratch == BlockedCall \/ BlockedStep \/ TriSolveLeft \/ TriSolveRight

SpecScratch == InitScratch /\ [][NextScratch]_vars

\* the threads that call solve or determinant
Readers == {1, 2}

\* invertible 2 x 2 matrices: the one the shared object was computed on and
\* the one a thread computes it on again
ConcInputs ==
    {[i \in 0..1 |-> [j \in 0..1 |-> RInt(f[i + 1][j + 1])]] :
        f \in {<<<<2, 1>>, <<4, 3>>>>, <<<<0, 1>>, <<1, 0>>>>, <<<<1, 2>>, <<0, 1>>>>}}

\* a computed object shared by two reading threads and, in the behaviours
\* where w.pc is not "none", by one thread that calls compute(w.matrix);
\* every member access of a thread is a step of its own
InitConc ==
    /\ matrix = Scenario
    /\ StorageOrder = "ColMajor"
    /\ dec = PartialPivLU_default
    /\ out = [op |-> "none"]
    /\ returned = TRUE
    /\ maxBlockSize = 256
    /\ u = unblocked_begin(matrix, UninitVector(Rows(matrix)))
    /\ b = [pc |-> "idle"]
    /\ pb = [pc |-> "idle"]
    /\ life = [pc |-> "idle"]
    /\ ts = [pc |-> "idle"]
    /\ um = [pc |-> "idle"]
    /\ nest = [pc |-> "idle"]
    /\ \E A \in ConcInputs, B \in ConcInputs, wpc \in {"none", "assign"},
          op2 \in {"solve", "determinant"} :
          cc = [pc |-> "run",
                obj |-> compute(StorageOrder, PartialPivLU_default, A),
                obj0 |-> compute(StorageOrder, PartialPivLU_default, A),
                w |-> [pc |-> wpc, matrix |-> B, nb_transpositions |-> 0],
                r |-> [i \in Readers |->
                         [op |-> IF i = 1 THEN "solve" ELSE op2, pc |-> "call",
                          rhs |-> [x \in 0..1 |-> [y \in 0..0 |-> RInt(x + i)]],
                          dst |-> <<>>, during |-> FALSE]]]

\* the readers after a write of compute: those inside a call ran during it
Overlapped(r) ==
    [i \in DOMAIN r |->
        [r[i] EXCEPT !.during = @ \/ r[i].pc \in {"permute", "lower", "upper", "det"}]]

\* Faulty variant: the object is marked uninitialized while it is rebuilt
compute_assign_unmarking(obj, m) ==
    [obj EXCEPT !.m_lu = m, !.m_isInitialized = FALSE]

\* the first statement of compute, m_lu = matrix, m being the argument
compute_assign(obj, m) == [obj EXCEPT !.m_lu = m]

\* compute, line 406: m_lu = matrix
WriterAssign ==
    /\ cc.pc = "run"
    /\ cc.w.pc = "assign"
    /\ cc' = [cc EXCEPT !.obj = compute_assign(@, cc.w.matrix), !.w.pc = "resize",
                        !.r = Overlapped(@)]
    /\ UNCHANGED <<matrix, StorageOrder, dec, out, returned, maxBlockSize, u, b, pb, life, ts, um, nest>>

\* compute, line 411: m_rowsTranspositions.resize(size)
WriterResize ==
    /\ cc.pc = "run"
    /\ cc.w.pc = "resize"
    /\ cc' = [cc EXCEPT !.obj.m_rowsTranspositions = resize(@, Rows(cc.w.matrix)),
                        !.w.pc = "factor", !.r = Overlapped(@)]
    /\ UNCHANGED <<matrix, StorageOrder, dec, out, returned, maxBlockSize, u, b, pb, life, ts, um, nest>>

\* compute, line 414: ei_partial_lu_inplace on m_lu and m_rowsTranspositions
WriterFactor ==
    /\ cc.pc = "run"
    /\ cc.w.pc = "factor"
    /\ cc' = [cc EXCEPT
                !.obj.m_lu = ei_partial_lu_inplace(StorageOrder, cc.obj.m_lu,
                                 cc.obj.m_rowsTranspositions).lu,
                !.obj.m_rowsTranspositions =
                    ei_partial_lu_inplace(StorageOrder, cc.obj.m_lu,
                        cc.obj.m_rowsTranspositions).row_transpositions,
                !.w.nb_transpositions =
                    ei_partial_lu_inplace(StorageOrder, cc.obj.m_lu,
                        cc.obj.m_rowsTranspositions).nb_transpositions,
                !.w.pc = "sign", !.r = Overlapped(@)]
    /\ UNCHANGED <<matrix, StorageOrder, dec, out, returned, maxBlockSize, u, b, pb, life, ts, um, nest>>

\* compute, line 415: m_det_p
WriterSign ==
    /\ cc.pc = "run"
    /\ cc.w.pc = "sign"
    /\ cc' = [cc EXCEPT !.obj.m_det_p = IF cc.w.nb_transpositions % 2 # 0 THEN -1 ELSE 1,
                        !.w.pc = "perm", !.r = Overlapped(@)]
    /\ UNCHANGED <<matrix, StorageOrder, dec, out, returned, maxBlockSize, u, b, pb, life, ts, um, nest>>

\* compute, lines 417-419: m_p
WriterPerm ==
    /\ cc.pc = "run"
    /\ cc.w.pc = "perm"
    /\ cc' = [cc EXCEPT !.obj.m_p = build_p(setIdentity(Rows(cc.w.matrix)),
                                            cc.obj.m_rowsTranspositions,
                                            Rows(cc.w.matrix) - 1),
                        !.w.pc = "mark", !.r = Overlapped(@)]
    /\ UNCHANGED <<matrix, StorageOrder, dec, out, returned, maxBlockSize, u, b, pb, life, ts, um, nest>>

\* compute, line 421: m_isInitialized = true
WriterMark ==
    /\ cc.pc = "run"
    /\ cc.w.pc = "mark"
    /\ cc' = [cc EXCEPT !.obj.m_isInitialized = TRUE, !.w.pc = "done",
                        !.r = Overlapped(@)]
    /\ UNCHANGED <<matrix, StorageOrder, dec, out, returned, maxBlockSize, u, b, pb, life, ts, um, nest>>

\* the thread that computes is between its first and its last write
Computing == cc.w.pc \in {"resize", "factor", "sign", "perm", "mark"}

\* solve (line 148) or determinant (line 428): ei_assert(m_isInitialized)
ReaderAssert ==
    /\ cc.pc = "run"
    /\ \E i \in Readers :
          /\ cc.r[i].pc = "call"
          /\ cc' = [cc EXCEPT !.r[i].pc =
                                 IF ~cc.obj.m_isInitialized THEN "assert"
                                 ELSE IF cc.r[i].op = "solve" THEN "permute"
                                 ELSE "det",
                              !.r[i].during = Computing]
    /\ UNCHANGED <<matrix, StorageOrder, dec, out, returned, maxBlockSize, u, b, pb, life, ts, um, nest>>

\* evalTo, step 1: dst = permutationP() * rhs
ReaderPermute ==
    /\ cc.pc = "run"
    /\ \E i \in Readers :
          /\ cc.r[i].pc = "permute"
          /\ cc' = [cc EXCEPT !.r[i].dst = PermTimes(cc.obj.m_p, cc.r[i].rhs),
                              !.r[i].pc = "lower",
                              !.r[i].during = @ \/ Computing]
    /\ UNCHANGED <<matrix, StorageOrder, dec, out, returned, maxBlockSize, u, b, pb, life, ts, um, nest>>

\* evalTo, step 2: matrixLU().triangularView<UnitLower>().solveInPlace(dst)
ReaderSolveL ==
    /\ cc.pc = "run"
    /\ \E i \in Readers :
          /\ cc.r[i].pc = "lower"
          /\ cc' = [cc EXCEPT !.r[i].dst = solveInPlace("UnitLower", StorageOrder,
                                                        cc.obj.m_lu, @),
                              !.r[i].pc = "upper",
                              !.r[i].during = @ \/ Computing]
    /\ UNCHANGED <<matrix, StorageOrder, dec, out, returned, maxBlockSize, u, b, pb, life, ts, um, nest>>

\* evalTo, step 3: matrixLU().triangularView<Upper>().solveInPlace(dst)
ReaderSolveU ==
    /\ cc.pc = "run"
    /\ \E i \in Readers :
          /\ cc.r[i].pc = "upper"
          /\ cc' = [cc EXCEPT !.r[i].dst = solveInPlace("Upper", StorageOrder,
                                                        cc.obj.m_lu, @),
                              !.r[i].pc = "done",
                              !.r[i].during = @ \/ Computing]
    /\ UNCHANGED <<matrix, StorageOrder, dec, out, returned, maxBlockSize, u, b, pb, life, ts, um, nest>>

\* determinant, line 429: Scalar(m_det_p) * m_lu.diagonal().prod()
ReaderDet ==
    /\ cc.pc = "run"
    /\ \E i \in Readers :
          /\ cc.r[i].pc = "det"
          /\ cc' = [cc EXCEPT !.r[i].dst = determinant(cc.obj),
                              !.r[i].pc = "done",
                              !.r[i].during = @ \/ Computing]
    /\ UNCHANGED <<matrix, StorageOrder, dec, out, returned, maxBlockSize, u, b, pb, life, ts, um, nest>>

NextConc ==
    \/ WriterAssign \/ WriterResize \/ WriterFactor \/ WriterSign \/ WriterPerm
    \/ WriterMark
    \/ ReaderAssert \/ ReaderPermute \/ ReaderSolveL \/ ReaderSolveU \/ ReaderDet

SpecConc == InitConc /\ [][NextConc]_vars

\* ---------------------------------------------------------------------------
\* umeyama: the transformation between two point sets

Transpose(M) ==
    [j \in 0..(Cols(M) - 1) |-> [i \in 0..(Rows(M) - 1) |-> M[i][j]]]

\* M.rowwise().sum(), a column
rowwise_sum(M) ==
    [i \in DOMAIN M |-> [j \in 0..0 |-> Dot(M, i, Ones(Cols(M)), 0, 0, Cols(M) - 1)]]

\* M.rowwise().squaredNorm(), a column
rowwise_squaredNorm(M) ==
    [i \in DOMAIN M |-> [j \in 0..0 |-> Dot(M, i, Transpose(M), i, 0, Cols(M) - 1)]]

\* V.sum() of a column V
sum(V) == Dot(Transpose(V), 0, Ones(Rows(V)), 0, 0, Rows(V) - 1)

\* M * c with a scalar c
CwiseScale(M, c) == [i \in DOMAIN M |-> [j \in DOMAIN M[i] |-> RMul(M[i][j], c)]]

\* A - B
CwiseSub(A, B) == [i \in DOMAIN A |-> [j \in DOMAIN A[i] |-> RSub(A[i][j], B[i][j])]]

\* every column of M minus the column mean
demean(M, mean) == [i \in DOMAIN M |-> [j \in DOMAIN M[i] |-> RSub(M[i][j], mean[i][0])]]

\* S.asDiagonal() of a column S
asDiagonal(S) ==
    [i \in DOMAIN S |-> [j \in DOMAIN S |-> IF i = j THEN S[i][0] ELSE Zero]]

RAbs(a) == <<Abs(a[1]), a[2]>>

IsNegative(a) == a[1] < 0 /\ a[2] # 0

IsPositive(a) == a[1] > 0 /\ a[2] # 0

\* sigma is diagonal and its diagonal does not grow in absolute value
IsOrderedDiagonal(sigma) ==
    /\ \A i, j \in DOMAIN sigma : i # j => IsZero(sigma[i][j])
    /\ \A i \in DOMAIN sigma : IsFinite(sigma[i][i])
    /\ \A i, j \in DOMAIN sigma : i < j => ~AbsGreater(sigma[j][j], sigma[i][i])

\* the decomposition sigma = U * diag(d) * V^T of an ordered diagonal sigma:
\* d holds the absolute values, U the signs, V is the identity
SVD(sigma) ==
    [matrixU |-> [i \in DOMAIN sigma |-> [j \in DOMAIN sigma |->
                    IF i # j THEN Zero
                    ELSE IF IsNegative(sigma[i][i]) THEN RInt(-1) ELSE One]],
     matrixV |-> Identity(Rows(sigma)),
     singularValues |-> [i \in DOMAIN sigma |-> [j \in 0..0 |-> RAbs(sigma[i][i])]]]

\* ei_isMuchSmallerThan(a, b): abs(a) <= abs(b) * precision; on the exact
\* values of the model the product with the precision is below every value
\* that is not zero
ei_isMuchSmallerThan(a, x) == IsZero(a)

\* the determinant of a square matrix of at most two rows
MatrixBase_determinant(M) ==
    IF Rows(M) = 0 THEN One
    ELSE IF Rows(M) = 1 THEN M[0][0]
    ELSE RSub(RMul(M[0][0], M[1][1]), RMul(M[0][1], M[1][0]))

\* S with its last coefficient replaced by v
WithLast(S, v) == [S EXCEPT ![Rows(S) - 1] = [j \in 0..0 |-> v]]

\* the rotation block of the result
umeyama_rotation(sigma, svd, S) ==
    LET m == Rows(sigma)
        d == svd.singularValues
        rank == Cardinality({i \in 0..(m - 1) : ~ei_isMuchSmallerThan(d[i][0], d[0][0])})
    IN  IF rank = m - 1
        THEN IF IsPositive(RMul(MatrixBase_determinant(svd.matrixU), MatrixBase_determinant(svd.matrixV)))
             THEN MatMul(svd.matrixU, Transpose(svd.matrixV))
             ELSE MatMul(MatMul(svd.matrixU, asDiagonal(WithLast(S, RInt(-1)))),
                         Transpose(svd.matrixV))
        ELSE MatMul(MatMul(svd.matrixU, asDiagonal(S)), Transpose(svd.matrixV))

\* umeyama(src, dst, with_scaling): the result Rt, and the values of the
\* locals R (the rotation block before scaling), c, src_mean and dst_mean
umeyama(src, dst, with_scaling) ==
    LET m == Rows(src)
        n == Cols(src)
        one_over_n == Rat(1, n)
        src_mean == CwiseScale(rowwise_sum(src), one_over_n)
        dst_mean == CwiseScale(rowwise_sum(dst), one_over_n)
        src_demean == demean(src, src_mean)
        dst_demean == demean(dst, dst_mean)
        src_var == RMul(sum(rowwise_squaredNorm(src_demean)), one_over_n)
        sigma == CwiseScale(MatMul(dst_demean, Transpose(src_demean)), one_over_n)
        svd == SVD(sigma)
        S == IF IsNegative(MatrixBase_determinant(sigma)) THEN WithLast(Ones(m), RInt(-1)) ELSE Ones(m)
        R == umeyama_rotation(sigma, svd, S)
        c == RMul(RDiv(One, src_var), Dot(Transpose(svd.singularValues), 0, S, 0, 0, m - 1))
        t == CwiseSub(dst_mean, MatMul(CwiseScale(R, c), src_mean))
        Rt1 == SetBlock(SetBlock(Identity(m + 1), 0, 0, R), 0, m, t)
    IN  [Rt |-> IF with_scaling THEN SetBlock(Rt1, 0, 0, CwiseScale(R, c)) ELSE Rt1,
         R |-> R, c |-> c, src_mean |-> src_mean, dst_mean |-> dst_mean]

\* the covariance matrix umeyama decomposes
umeyama_sigma(src, dst) ==
    LET one_over_n == Rat(1, Cols(src))
        src_mean == CwiseScale(rowwise_sum(src), one_over_n)
        dst_mean == CwiseScale(rowwise_sum(dst), one_over_n)
    IN  CwiseScale(MatMul(demean(dst, dst_mean), Transpose(demean(src, src_mean))),
                   one_over_n)

\* the largest coordinate of a point on a line
MaxCoord == 2

\* the largest number of points of a set on a line
MaxPoints == 2

\* the largest factor and offset of the plane maps
MaxStretch == 2

\* point sets on a line: every choice of coordinates
LinePoints(n) ==
    {[i \in 0..0 |-> [j \in 0..(n - 1) |-> RInt(f[j + 1])]] : f \in [1..n -> 0..MaxCoord]}

\* four points of the plane around the centre (cx, cy)
PlanePoints(cx, cy) ==
    [i \in 0..1 |-> [j \in 0..3 |->
        RInt(IF i = 0 THEN cx + <<1, -1, 0, 0>>[j + 1] ELSE cy + <<0, 0, 1, -1>>[j + 1])]]

\* the image of the points under x -> a*x + tx, y -> e*y + ty
PlaneMap(P, a, e, tx, ty) ==
    [i \in 0..1 |-> [j \in DOMAIN P[i] |->
        IF i = 0 THEN RAdd(RMul(RInt(a), P[0][j]), RInt(tx))
        ELSE RAdd(RMul(RInt(e), P[1][j]), RInt(ty))]]

\* the calls of umeyama: the two point sets have the same shape, at least
\* two points, and a covariance matrix the model's SVD decomposes
UmeyamaCalls ==
    LET line == UNION {{[src |-> s, dst |-> d] : s \in LinePoints(n), d \in LinePoints(n)} :
                        n \in 2..MaxPoints}
        plane == {[src |-> PlanePoints(cx, 0), dst |-> PlaneMap(PlanePoints(cx, 0), a, e, tx, 0)] :
                    cx \in 0..1, a \in (-MaxStretch)..MaxStretch,
                    e \in (-MaxStretch)..MaxStretch, tx \in 0..1}
    IN  {call \in line \cup plane : IsOrderedDiagonal(umeyama_sigma(call.src, call.dst))}

InitUmeyama ==
    /\ matrix = Scenario
    /\ StorageOrder = "ColMajor"
    /\ dec = PartialPivLU_default
    /\ out = [op |-> "none"]
    /\ returned = TRUE
    /\ maxBlockSize = 256
    /\ u = unblocked_begin(matrix, UninitVector(Rows(matrix)))
    /\ b = [pc |-> "idle"]
    /\ pb = [pc |-> "idle"]
    /\ life = [pc |-> "idle"]
    /\ ts = [pc |-> "idle"]
    /\ cc = [pc |-> "idle"]
    /\ nest = [pc |-> "idle"]
    /\ \E call \in UmeyamaCalls, with_scaling \in BOOLEAN :
          um = [pc |-> "call", src |-> call.src, dst |-> call.dst,
                with_scaling |-> with_scaling]

\* the call returns
Umeyama ==
    /\ um.pc = "call"
    /\ um' = [um EXCEPT !.pc = "done"] @@
             umeyama(um.src, um.dst, um.with_scaling)
    /\ UNCHANGED <<matrix, StorageOrder, dec, out, returned, maxBlockSize, u, b, pb, life, ts, cc, nest>>

NextUmeyama == Umeyama

SpecUmeyama == InitUmeyama /\ [][NextUmeyama]_vars

\* ---------------------------------------------------------------------------
\* The calls of blocked_lu: which call is made on which block, whatever the
\* coefficients are.  A frame is one call in progress; what a call on a
\* matrix of at most 16 columns returns depends on the coefficients and is
\* left open.

\* the largest number of columns of a matrix that is not blocked twice
MaxNestSize == 40

\* the number of sizes from 256 on, where the panels are blocked themselves
MaxNestDeep == 2

\* rows - cols is at most this
MaxNestTall == 1

NestSizes == (0..MaxNestSize) \cup (256..(256 + MaxNestDeep - 1))

\* the frame of the call blocked_lu(rows, cols, ..., maxBlockSize)
NestFrame(rows, cols, blockLimit) ==
    [rows |-> rows, cols |-> cols, maxBlockSize |-> blockLimit,
     blockSize |-> 0, k |-> 0, blocks |-> <<>>]

InitNest ==
    /\ matrix = Scenario
    /\ StorageOrder = "ColMajor"
    /\ dec = PartialPivLU_default
    /\ out = [op |-> "none"]
    /\ returned = TRUE
    /\ maxBlockSize = 256
    /\ u = unblocked_begin(matrix, UninitVector(Rows(matrix)))
    /\ b = [pc |-> "idle"]
    /\ pb = [pc |-> "idle"]
    /\ life = [pc |-> "idle"]
    /\ ts = [pc |-> "idle"]
    /\ cc = [pc |-> "idle"]
    /\ um = [pc |-> "idle"]
    /\ \E cols \in NestSizes, tall \in 0..MaxNestTall :
          nest = [pc |-> "call", ret |-> TRUE, calls |-> 1,
                  stack |-> <<NestFrame(cols + tall, cols, maxBlockSize)>>]

NestTop == nest.stack[Len(nest.stack)]

NestSize(f) == Min(f.rows, f.cols)

\* size <= 16: the call returns what unblocked_lu returns
NestUnblocked ==
    /\ nest.pc = "call"
    /\ NestSize(NestTop) <= 16
    /\ \E ret \in (IF NestSize(NestTop) = 0 THEN {TRUE} ELSE BOOLEAN) :
          nest' = [nest EXCEPT !.pc = "return", !.ret = ret,
                               !.stack = SubSeq(@, 1, Len(@) - 1)]
    /\ UNCHANGED <<matrix, StorageOrder, dec, out, returned, maxBlockSize, u, b, pb, life, ts, cc, um>>

\* size > 16: the block width is chosen and the loop over k starts
NestBlocked ==
    /\ nest.pc = "call"
    /\ NestSize(NestTop) > 16
    /\ nest' = [nest EXCEPT !.pc = "loop",
                            !.stack[Len(nest.stack)].blockSize =
                                blockSizeFor(NestSize(NestTop), NestTop.maxBlockSize)]
    /\ UNCHANGED <<matrix, StorageOrder, dec, out, returned, maxBlockSize, u, b, pb, life, ts, cc, um>>

\* k < size: the call on the panel of the block at k, with maxBlockSize 16
NestPanel ==
    /\ nest.pc = "loop"
    /\ NestTop.k < NestSize(NestTop)
    /\ LET bs    == Min(NestSize(NestTop) - NestTop.k, NestTop.blockSize)
           trows == NestTop.rows - NestTop.k - bs
       IN  nest' = [nest EXCEPT !.pc = "call", !.calls = @ + 1,
                       !.stack = Append([@ EXCEPT ![Len(@)].blocks =
                                             Append(@, <<NestTop.k, bs>>)],
                                        NestFrame(trows + bs, bs, 16))]
    /\ UNCHANGED <<matrix, StorageOrder, dec, out, returned, maxBlockSize, u, b, pb, life, ts, cc, um>>

\* the call on the panel returned: false ends the caller, true goes on with
\* the rest of the iteration and k += blockSize
NestAfterPanel ==
    /\ nest.pc = "return"
    /\ nest.stack # <<>>
    /\ nest' = IF nest.ret
               THEN [nest EXCEPT !.pc = "loop",
                                 !.stack[Len(nest.stack)].k = @ + NestTop.blockSize]
               ELSE [nest EXCEPT !.stack = SubSeq(@, 1, Len(@) - 1)]
    /\ UNCHANGED <<matrix, StorageOrder, dec, out, returned, maxBlockSize, u, b, pb, life, ts, cc, um>>

\* k >= size: the loop is left and the call returns true
NestLoopEnd ==
    /\ nest.pc = "loop"
    /\ NestTop.k >= NestSize(NestTop)
    /\ nest' = [nest EXCEPT !.pc = "return", !.ret = TRUE,
                            !.stack = SubSeq(@, 1, Len(@) - 1)]
    /\ UNCHANGED <<matrix, StorageOrder, dec, out, returned, maxBlockSize, u, b, pb, life, ts, cc, um>>

NextNest == NestUnblocked \/ NestBlocked \/ NestPanel \/ NestAfterPanel \/ NestLoopEnd

\* every call in progress goes on
SpecNest == InitNest /\ [][NextNest]_vars /\ WF_vars(NextNest)

Next ==
    \/ NextFacade \/ NextLU \/ NextPerm \/ NextLife \/ NextTri \/ NextFormat
    \/ NextScratch \/ NextConc \/ NextUmeyama \/ NextNest

(***************************************************************************)
(* Properties                                                              *)
(***************************************************************************)
\* the value blocked_lu returned inside compute(matrix): FALSE on a zero pivot
FactorRet == returned

IsIdentityPerm(p) == \A i \in DOMAIN p : p[i] = i

SameShape(X, Y) == Rows(X) = Rows(Y) /\ Cols(X) = Cols(Y)

C2_Solve ==
    (out.op = "solve" /\ Invertible(matrix)) =>
        /\ SameShape(out.val, out.rhs)
        /\ MatMul(matrix, out.val) = out.rhs

C2_Witness ==
    /\ out.op = "solve"
    /\ Invertible(matrix)
    /\ Rows(matrix) > 16
    /\ Cols(out.rhs) = 2
    /\ ~IsIdentityPerm(dec.m_p)

\* C3: after a successful factorization determinant() is m_det_p times the
\* product of the diagonal of m_lu, and that is det(A), sign included
C3_Determinant ==
    (out.op = "determinant" /\ FactorRet) =>
        /\ dec.m_det_p \in {-1, 1}
        /\ out.val = RMul(RInt(dec.m_det_p), diagonal_prod(dec.m_lu, 0, Rows(dec.m_lu) - 1))
        /\ out.val = Det(matrix)

C3_Witness ==
    /\ out.op = "determinant"
    /\ FactorRet
    /\ Rows(matrix) > 16
    /\ dec.m_det_p = -1
    /\ out.val[1] > 0

\* C4: on A = [[2,1],[4,3]] the factorization swaps row 1 with row 0
\* (transpositions [1,1], one counted swap), leaves L = [[1,0],[1/2,1]] and
\* U = [[4,3],[0,-1/2]], determinant() is 2 and solve([1,1]) is exact
C4_Scenario ==
    (matrix = Scenario /\ dec.m_isInitialized) =>
        /\ dec.m_rowsTranspositions = [i \in 0..1 |-> 1]
        /\ unblocked_lu(matrix, UninitVector(2)).nb_transpositions = 1
        /\ dec.m_det_p = -1
        /\ UnitLowerPart(dec.m_lu) = [i \in 0..1 |-> [j \in 0..1 |->
               IF i = j THEN One ELSE IF i > j THEN Rat(1, 2) ELSE Zero]]
        /\ UpperPart(dec.m_lu) = [i \in 0..1 |-> [j \in 0..1 |->
               IF i = 0 THEN RInt(4 - j) ELSE IF j = 1 THEN Rat(-1, 2) ELSE Zero]]
        /\ (out.op = "determinant" => out.val = RInt(2))
        /\ (out.op = "solve" => MatMul(matrix, out.val) = out.rhs)

C4_Witness ==
    /\ matrix = Scenario
    /\ out.op = "solve"
    /\ out.rhs = Ones(2)
    /\ out.val = [i \in 0..1 |-> [j \in 0..0 |-> IF i = 0 THEN One ELSE RInt(-1)]]

\* C5: inverse() is solve() of the identity, and on an invertible A the
\* result X satisfies X A = Identity and A X = Identity
C5_Inverse ==
    out.op = "inverse" =>
        /\ out.val = evalTo(StorageOrder, dec, Identity(Rows(matrix)))
        /\ Invertible(matrix) =>
              /\ MatMul(out.val, matrix) = Identity(Rows(matrix))
              /\ MatMul(matrix, out.val) = Identity(Rows(matrix))

C5_Witness ==
    /\ out.op = "inverse"
    /\ Invertible(matrix)
    /\ Rows(matrix) > 16
    /\ out.val # matrix
    /\ ~IsIdentityPerm(dec.m_p)

HasZeroOnDiagonal(M) == \E i \in DOMAIN M : IsZero(M[i][i])

Computed == dec # PartialPivLU_default

\* C6 as stated: compute on a matrix with a zero pivot column leaves a state
\* that is not marked valid
C6_SingularReported ==
    (Computed /\ ~FactorRet) => ~dec.m_isInitialized

\* C6: the false of blocked_lu does not reach the caller of compute and the
\* state is marked valid as after a success; a failed factorization shows
\* only as an exact zero on the diagonal of m_lu, which a successful one
\* never has
C6_SingularUnreported ==
    Computed =>
        /\ dec.m_isInitialized
        /\ DOMAIN dec = {"m_lu", "m_p", "m_rowsTranspositions", "m_det_p",
                         "m_isInitialized"}
        /\ ~FactorRet <=> HasZeroOnDiagonal(dec.m_lu)
        /\ ~FactorRet => (out.op = "determinant" => out.val = Zero)

C6_Witness ==
    /\ Computed
    /\ ~FactorRet
    /\ dec.m_isInitialized
    /\ Rows(matrix) > 16
    /\ out.op = "determinant"
    /\ out.val = Zero

\* the largest |lu(i, k)| over the rows i >= k is exactly zero
ColumnMaxIsZero(lu, k) == \A i \in k..(Rows(lu) - 1) : IsZero(lu[i][k])

\* the width of the block blocked_lu is working on
CurrentBlock ==
    Min(Min(Rows(matrix), Cols(matrix)) - b.k,
        blockSizeFor(Min(Rows(matrix), Cols(matrix)), maxBlockSize))

C7_Step ==
    /\ (u.pc = "loop" /\ u' # u) =>
          IF ColumnMaxIsZero(u.lu, u.k)
          THEN u'.pc = "done" /\ ~u'.ret /\ u'.lu = u.lu /\ u'.ndiv = u.ndiv
          ELSE /\ ~IsZero(u'.lu[u.k][u.k])
               /\ ~u'.divzero
               /\ AllFinite(u'.lu)
    /\ (b.pc = "loop" /\ b' # b) =>
          /\ ~b'.divzero
          /\ AllFinite(b'.lu)
          /\ ~b'.ret =>
                /\ b'.pc = "done"
                /\ \A i \in DOMAIN b.lu : \A j \in DOMAIN b.lu[i] :
                      (j < b.k \/ j >= b.k + CurrentBlock) => b'.lu[i][j] = b.lu[i][j]

\* C7: no step of the factorization divides by zero: the sub-column is
\* divided only when the largest entry of the column is non-zero, and on a
\* zero one the algorithm returns with no further division or update
C7_NoDivisionByZero == [][C7_Step]_vars

C7_Witness ==
    /\ Rows(matrix) > 16
    /\ u.pc = "done" /\ ~u.ret /\ u.ndiv > 6
    /\ b.pc = "done" /\ ~b.ret /\ b.ndiv > 6
    /\ ColumnMaxIsZero(u.lu, u.k)

C8_Step ==
    (u.pc = "loop" /\ u' # u /\ ColumnMaxIsZero(u.lu, u.k)) =>
        /\ ~u'.ret
        /\ u'.pc = "done"
        /\ \A i \in DOMAIN u.row_transpositions :
              u'.row_transpositions[i] = IF i >= u.k THEN i ELSE u.row_transpositions[i]
        /\ u'.nb_transpositions = u.nb_transpositions

\* C8: on a zero pivot at column k unblocked_lu returns false, sets the
\* transposition entries k .. size-1 to the identity and keeps the entries
\* 0 .. k-1 and the number of transpositions counted so far
C8_ZeroPivot == [][C8_Step]_vars

C8_Witness ==
    /\ u.pc = "done" /\ ~u.ret
    /\ u.k >= 2
    /\ u.nb_transpositions >= 1
    /\ \E i \in 0..(u.k - 1) : u.row_transpositions[i] # i
    /\ \A i \in u.k..(Rows(matrix) - 1) : u.row_transpositions[i] = i

\* C9: blocked_lu returns false exactly when unblocked_lu does, stops in the
\* panel holding the first zero pivot column after the same divisions, and
\* leaves the transposition entries from that column on at the identity
C9_BlockedFailure ==
    (u.pc = "done" /\ b.pc = "done") =>
        /\ b.ret = u.ret
        /\ ~b.ret =>
              /\ b.k <= u.k
              /\ u.k < b.k + CurrentBlock
              /\ b.ndiv = u.ndiv
              /\ \A i \in u.k..(Rows(matrix) - 1) : b.row_transpositions[i] = i

C9_Witness ==
    /\ u.pc = "done" /\ b.pc = "done"
    /\ ~b.ret
    /\ Rows(matrix) > 16
    /\ b.k > 0
    /\ u.k > b.k

\* C10: on an invertible input blocked_lu leaves the same packed buffer, the
\* same transpositions and the same count as unblocked_lu, for every
\* maxBlockSize
C10_BlockIndependence ==
    (u.pc = "done" /\ b.pc = "done" /\ Invertible(matrix)) =>
        /\ b.ret /\ u.ret
        /\ b.lu = u.lu
        /\ b.row_transpositions = u.row_transpositions
        /\ b.nb_transpositions = u.nb_transpositions

C10_Witness ==
    /\ u.pc = "done" /\ b.pc = "done"
    /\ Invertible(matrix)
    /\ Rows(matrix) > 16
    /\ maxBlockSize = 2
    /\ b.nb_transpositions = 2
    /\ b.lu # matrix


RECURSIVE RowsAfterSwaps(_, _, _)
\* the rows after the recorded swaps, applied in elimination order from step
\* k on: src[i] is the index the row now at position i had in the original
RowsAfterSwaps(src, list, k) ==
    IF k >= Cardinality(DOMAIN list) THEN src
    ELSE RowsAfterSwaps([i \in DOMAIN src |->
                            IF i = k THEN src[list[k]]
                            ELSE IF i = list[k] THEN src[k] ELSE src[i]],
                        list, k + 1)

Permuted(list) == RowsAfterSwaps([i \in DOMAIN list |-> i], list, 0)

IsBijection(p, n) ==
    /\ DOMAIN p = 0..(n - 1)
    /\ {p[i] : i \in DOMAIN p} = 0..(n - 1)

\* C12: after compute on a square input of size n, successful or singular,
\* m_p has n entries and every index 0 .. n-1 occurs in it exactly once
C12_Bijection ==
    Computed =>
        /\ IsBijection(dec.m_p, Rows(matrix))
        /\ IsBijection(PermInverse(dec.m_p), Rows(matrix))

\* a singular input of the blocked regime with a swap before the zero pivot
C12_Witness ==
    /\ Computed
    /\ ~FactorRet
    /\ Rows(matrix) > 16
    /\ ~IsIdentityPerm(dec.m_p)


NonTrivial(list) == {k \in DOMAIN list : list[k] # k}

GlobalTranspositions(s) ==
    \A k \in 0..(Min(Rows(s.lu), Cols(s.lu)) - 1) :
        /\ k <= s.row_transpositions[k]
        /\ s.row_transpositions[k] < Rows(s.lu)
        /\ \A p \in s.pivots : p[1] = k => s.row_transpositions[k] = p[2]
        /\ s.row_transpositions[k] = k <=> ~(\E p \in s.pivots : p[1] = k /\ p[2] # k)

\* C14: after unblocked_lu and after blocked_lu every transposition entry is
\* a global row index with k <= list[k] < n, it is the row exchanged with row
\* k at step k, and it is k exactly when step k exchanged nothing
C14_GlobalTranspositions ==
    /\ u.pc = "done" => GlobalTranspositions(u)
    /\ b.pc = "done" => GlobalTranspositions(b)

\* the same on the runs that returned true, and on every run of unblocked_lu
C14_OnSuccess ==
    /\ u.pc = "done" => GlobalTranspositions(u)
    /\ (b.pc = "done" /\ b.ret) => GlobalTranspositions(b)


\* blocked_lu at the default block width returned false with a step of the
\* failed panel that exchanged two rows and whose entry is the identity
C14_Witness ==
    /\ b.pc = "done"
    /\ ~b.ret
    /\ maxBlockSize = 256
    /\ \E p \in b.pivots : p[1] # p[2] /\ b.row_transpositions[p[1]] = p[1]
    /\ b.nb_transpositions < Cardinality({p \in b.pivots : p[1] # p[2]})
    /\ u.row_transpositions # b.row_transpositions


ReadOps == {"matrixLU", "permutationP", "solve", "inverse", "determinant",
            "reconstructedMatrix"}

Called == life' # life

C15_State ==
    life.pc # "idle" =>
        /\ life.computes = 0 <=> ~dec.m_isInitialized
        /\ (out.op \in ReadOps /\ life.computes = 0) =>
              (out.assert /\ life.pc = "rejected")

C15_Step == dec.m_isInitialized => dec'.m_isInitialized

\* C15: on an object built by PartialPivLU() or PartialPivLU(size) and never
\* computed, the m_isInitialized assertion of matrixLU, permutationP, solve,
\* inverse, determinant and reconstructedMatrix fails; m_isInitialized is
\* false until a compute call completes and is never reset afterwards
C15_Uninitialized == []C15_State /\ [][C15_Step]_vars

\* determinant() as the first call on an object of the size constructor
C15_Witness ==
    /\ life.pc = "rejected"
    /\ life.computes = 0
    /\ life.calls = 1
    /\ out.op = "determinant"
    /\ out.assert
    /\ dec = PartialPivLU_size(2)

StoredState(d) == <<d.m_lu, d.m_p, d.m_rowsTranspositions, d.m_det_p>>

\* C16: when compute rejects a matrix that is not square, the stored state
\* of the object is the one before the call, or the object is not marked
\* as initialized
C16_RejectedCompute ==
    (life.pc = "rejected" /\ out.op = "compute") =>
        \/ StoredState(dec) = StoredState(life.prev)
        \/ ~dec.m_isInitialized

\* a computed object whose m_lu is the rejected 1 x 2 matrix
C16_Witness ==
    /\ life.pc = "rejected"
    /\ out.op = "compute"
    /\ out.assert
    /\ life.prev.m_isInitialized
    /\ dec.m_isInitialized
    /\ dec.m_lu = out.arg
    /\ Rows(dec.m_lu) # Cols(dec.m_lu)
    /\ dec.m_p = life.prev.m_p

C17_Step ==
    (Called /\ out'.op = "compute" /\ life'.pc = "ready") =>
        /\ dec' = compute(StorageOrder, PartialPivLU_default, out'.arg)
        /\ compute(StorageOrder, dec', out'.arg) = dec'

\* C17: compute(M) on an object in any prior state leaves the stored state
\* compute(M) leaves on a fresh object, and a second compute(M) changes
\* nothing
C17_HistoryIndependent == [][C17_Step]_vars

\* an invertible matrix of the blocked regime computed after a singular one
\* of the same size
C17_Witness ==
    /\ out.op = "compute"
    /\ life.pc = "ready"
    /\ life.computes = 2
    /\ Rows(matrix) > 16
    /\ Rows(life.prev.m_lu) = Rows(matrix)
    /\ HasZeroOnDiagonal(life.prev.m_lu)
    /\ ~HasZeroOnDiagonal(dec.m_lu)
    /\ life.prev.m_rowsTranspositions # dec.m_rowsTranspositions

C18_Step ==
    Called =>
        /\ out'.op \in ReadOps => (dec' = dec /\ matrix' = matrix)
        /\ out'.op = "solve" => out'.rhs = out'.arg
        /\ out'.op = "compute" => matrix' = out'.arg

\* C18: matrixLU, permutationP, solve, inverse, determinant and
\* reconstructedMatrix leave the object as it is; they and compute leave the
\* caller's matrix and right-hand side as they are
C18_Immutable == [][C18_Step]_vars

\* a solve whose result differs from its right-hand side, after a compute
\* that changed its private copy
C18_Witness ==
    /\ out.op = "solve"
    /\ ~out.assert
    /\ out.val # out.rhs
    /\ dec = life.prev
    /\ dec.m_lu # matrix

\* C19: the left-side solver overwrites B with X such that T * X = B, T the
\* triangular view of the operand in its mode, for every size, number of
\* columns and blocking sizes, multiples of kc and SmallPanelWidth or not
C19_LeftSolve ==
    (ts.pc = "done" /\ ts.Side = "OnTheLeft")
        => MatMul(TriangularView(ts.Mode, ts.tri), ts.other) = ts.B

\* a lower operand with its own diagonal, of a size that is a multiple neither
\* of kc nor of the small panel width, solved to something other than B
C19_Witness ==
    /\ ts.pc = "done"
    /\ ts.Side = "OnTheLeft"
    /\ ts.Mode = "Lower"
    /\ Rows(ts.tri) % ts.kc # 0
    /\ ts.kc % ts.SmallPanelWidth # 0
    /\ ts.kc > ts.SmallPanelWidth
    /\ Rows(ts.tri) % ts.SmallPanelWidth # 0
    /\ Cols(ts.other) > 1
    /\ ts.other # ts.B
    /\ \E e \in 1..Len(ts.trace) : ts.trace[e][1] = "gepp"

\* C20: the right-side solver overwrites B with X such that X * T = B, for
\* every size, number of rows and blocking sizes kc and mc
C20_RightSolve ==
    (ts.pc = "done" /\ ts.Side = "OnTheRight")
        => MatMul(ts.other, TriangularView(ts.Mode, ts.tri)) = ts.B

\* a lower operand with its own diagonal, of a size that is a multiple neither
\* of kc nor of the small panel width, with more rows than mc
C20_Witness ==
    /\ ts.pc = "done"
    /\ ts.Side = "OnTheRight"
    /\ ts.Mode = "Lower"
    /\ Rows(ts.tri) % ts.kc # 0
    /\ ts.kc % ts.SmallPanelWidth # 0
    /\ ts.kc > ts.SmallPanelWidth
    /\ Rows(ts.tri) % ts.SmallPanelWidth # 0
    /\ Rows(ts.other) > ts.mc
    /\ ts.other # ts.B
    /\ \E e \in 1..Len(ts.trace) : ts.trace[e][1] = "geb"
    /\ \E e \in 1..Len(ts.trace) : ts.trace[e][1] = "gebp"

\* the result of the column-major kernel on the logical operands of ts
ColMajorSolve ==
    IF ts.Side = "OnTheLeft"
    THEN triangular_solve_left(ts.Mode, ts.TriStorageOrder, ts.tri, ts.B, Cols(ts.B),
                               ts.kc, ts.mc, ts.SmallPanelWidth).other
    ELSE triangular_solve_right(ts.Mode, ts.TriStorageOrder, ts.tri, ts.B,
                                ts.kc, ts.mc, ts.SmallPanelWidth).other

\* what blocked_lu<ColMajor> returns on matrix with the block width of b
ColMajorLU == blocked_lu("ColMajor", matrix, UninitVector(Rows(matrix)), maxBlockSize)

\* C21: the solve on a row-major `other` returns the same logical X as the
\* column-major kernel on the same operands, and blocked_lu<RowMajor> returns
\* the same buffer, transpositions, count and result as blocked_lu<ColMajor>
C21_FormatInvariance ==
    /\ (ts.pc = "done" /\ ts.OtherStorageOrder = "RowMajor") => ts.other = ColMajorSolve
    /\ (StorageOrder = "RowMajor" /\ b.pc = "done")
          => /\ b.lu = ColMajorLU.lu
             /\ b.row_transpositions = ColMajorLU.row_transpositions
             /\ b.nb_transpositions = ColMajorLU.nb_transpositions
             /\ b.ret = ColMajorLU.ret

\* a row-major solve of several panels that changed `other`
C21_Witness ==
    /\ ts.pc = "done"
    /\ ts.OtherStorageOrder = "RowMajor"
    /\ ts.Side = "OnTheLeft"
    /\ ts.Mode = "Lower"
    /\ Rows(ts.tri) > ts.kc
    /\ Cols(ts.other) > 1
    /\ ts.other # ts.B
    /\ ts.other # [i \in DOMAIN ts.B |-> [j \in DOMAIN ts.B[i] |-> ts.B[0][0]]]

\* blocked_lu<RowMajor> returned true after an iteration with trailing rows
C21_WitnessLU ==
    /\ StorageOrder = "RowMajor"
    /\ b.pc = "done"
    /\ b.ret
    /\ Rows(matrix) > 16
    /\ b.nb_transpositions > 0

\* the entries of the log that allocate, and those that release
NewsOf(log) == {e \in 1..Len(log) : log[e][1] = "new"}

DeletesOf(log) == {e \in 1..Len(log) : log[e][1] = "delete"}

\* every allocation is followed by exactly one release of the same buffer,
\* which names the size of the allocation, and nothing else is released
ReleasedOnce(log) ==
    /\ \A e \in NewsOf(log) :
          /\ Cardinality({d \in DeletesOf(log) : log[d][2] = log[e][2]}) = 1
          /\ \E d \in DeletesOf(log) : d > e /\ log[d][2] = log[e][2]
                                       /\ log[d][3] = log[e][3]
    /\ \A d \in DeletesOf(log) : \E e \in NewsOf(log) : log[e][2] = log[d][2]

\* C22: a call of the triangular solver has allocated blockA and
\* allocatedBlockB and released each exactly once, with the size of its
\* allocation, when it returns; blocked_lu holds no scratch buffer between its
\* iterations nor after its return, whether it returns true or false
C22_ScratchReleased ==
    /\ ts.pc = "done"
          => /\ {ts.heap.log[e][2] : e \in NewsOf(ts.heap.log)}
                    = {"blockA", "allocatedBlockB"}
             /\ ReleasedOnce(ts.heap.log)
             /\ ts.heap.live = {}
    /\ b.pc \in {"loop", "done"} => b.scratch = {}

\* a solve of several panels has returned with its four calls in the log
C22_Witness ==
    /\ ts.pc = "done"
    /\ Rows(ts.tri) > ts.kc
    /\ Len(ts.heap.log) = 4
    /\ ts.heap.log[1][3] = ts.kc * ts.mc
    /\ ts.other # ts.B

\* blocked_lu returned false out of an iteration that follows one with a solve
C22_WitnessLU ==
    /\ b.pc = "done"
    /\ ~b.ret
    /\ Rows(matrix) > 16
    /\ b.k > 0

\* what a call of reader i returns when it runs alone on the object d
Sequential(d, i) ==
    IF cc.r[i].op = "solve" THEN evalTo(StorageOrder, d, cc.r[i].rhs)
    ELSE determinant(d)

\* C23: with no thread in compute, the object is never written and every
\* reader returns what it returns when run alone, whatever the interleaving;
\* a compute on the computed object leaves m_isInitialized true from its first
\* write to its last, so the assertion of a reader does not keep it out, and
\* its writes one after the other make the object compute(matrix) leaves
C23_Concurrent ==
    cc.pc = "run" =>
        /\ cc.w.pc = "none" =>
              /\ cc.obj = cc.obj0
              /\ \A i \in Readers :
                    cc.r[i].pc = "done" => cc.r[i].dst = Sequential(cc.obj0, i)
        /\ Computing => cc.obj.m_isInitialized
        /\ \A i \in Readers : cc.r[i].pc # "assert"
        /\ cc.w.pc = "done" => cc.obj = compute(StorageOrder, cc.obj0, cc.w.matrix)
        /\ \A i \in Readers :
              (cc.r[i].pc = "done" /\ ~cc.r[i].during)
                  => \/ cc.r[i].dst = Sequential(cc.obj0, i)
                     \/ cc.r[i].dst = Sequential(compute(StorageOrder, cc.obj0,
                                                         cc.w.matrix), i)

\* a solve that ran while compute was between its writes returned neither
\* the solution for the old matrix nor the solution for the new one
C23_Witness ==
    /\ cc.pc = "run"
    /\ cc.r[1].pc = "done"
    /\ cc.r[1].during
    /\ cc.r[1].dst # Sequential(cc.obj0, 1)
    /\ cc.r[1].dst # Sequential(compute(StorageOrder, cc.obj0, cc.w.matrix), 1)

\* two solves interleaved with no compute both returned their solution
C23_WitnessReaders ==
    /\ cc.pc = "run"
    /\ cc.w.pc = "none"
    /\ \A i \in Readers : cc.r[i].pc = "done" /\ cc.r[i].op = "solve"
    /\ cc.r[1].dst # cc.r[2].dst

\* the last row of the result of a returned umeyama call is (0,...,0,1)
UmeyamaLastRow ==
    um.pc = "done" =>
        LET m == Rows(um.src)
        IN  \A j \in 0..m : um.Rt[m][j] = (IF j = m THEN One ELSE Zero)

\* what the returned call computed: in both modes the translation column is
\* dst_mean - c * R * src_mean with the estimated c, and the block is c * R
\* with scaling and R without
UmeyamaComputed ==
    um.pc = "done" =>
        LET m == Rows(um.src)
        IN  /\ Block(um.Rt, 0, m, m, 1) =
                   CwiseSub(um.dst_mean, MatMul(CwiseScale(um.R, um.c), um.src_mean))
            /\ Block(um.Rt, 0, 0, m, m) =
                   (IF um.with_scaling THEN CwiseScale(um.R, um.c) ELSE um.R)
            /\ UmeyamaLastRow

\* C24: umeyama(src, dst, with_scaling = false) returns the transformation
\* computed with c = 1: the upper-left m x m block is the rotation R and the
\* translation column is dst_mean - R * src_mean, so the estimated scale c
\* influences no entry; in both modes the last row is (0,...,0,1)
C24_UnitScale ==
    um.pc = "done" =>
        LET m == Rows(um.src)
        IN  /\ ~um.with_scaling =>
                   /\ Block(um.Rt, 0, 0, m, m) = um.R
                   /\ Block(um.Rt, 0, m, m, 1) =
                          CwiseSub(um.dst_mean, MatMul(um.R, um.src_mean))
            /\ \A j \in 0..m : um.Rt[m][j] = (IF j = m THEN One ELSE Zero)

\* a call without scaling returned, the estimated scale is finite and not 1
\* and the source mean is not the origin
C24_Witness ==
    /\ um.pc = "done"
    /\ ~um.with_scaling
    /\ IsFinite(um.c) /\ um.c # One
    /\ \E i \in DOMAIN um.src_mean : ~IsZero(um.src_mean[i][0])
    /\ Rows(um.src) = 2

\* the same on a line
C24_WitnessLine ==
    /\ um.pc = "done"
    /\ ~um.with_scaling
    /\ IsFinite(um.c) /\ um.c # One
    /\ ~IsZero(um.src_mean[0][0])
    /\ Rows(um.src) = 1
    /\ IsNegative(um.c)

\* the positions of the trace where a cache-sized panel is started
PanelStarts(trace) == {a \in 1..Len(trace) : trace[a][1] = "panel"}

\* the positions of the steps taken for the panel started at position a
PanelSteps(trace, a) ==
    {q \in (a + 1)..Len(trace) : \A z \in (a + 1)..q : trace[z][1] # "panel"}

\* the k2 of the panels in the order they were started
PanelOrder(trace) ==
    LET RECURSIVE from(_)
        from(a) == IF a > Len(trace) THEN <<>>
                   ELSE IF trace[a][1] = "panel" THEN <<trace[a][2]>> \o from(a + 1)
                   ELSE from(a + 1)
    IN  from(1)

Increasing(s) == \A i \in 1..(Len(s) - 1) : s[i] < s[i + 1]

Decreasing(s) == \A i \in 1..(Len(s) - 1) : s[i] > s[i + 1]

\* left side: before the next panel is started, the GEPP steps of a panel
\* have updated exactly the rows of B that are still to be solved
LeftPropagated ==
    \A a \in PanelStarts(ts.trace) :
        UNION {ts.trace[q][2]..(ts.trace[q][2] + ts.trace[q][3] - 1) :
                 q \in {z \in PanelSteps(ts.trace, a) : ts.trace[z][1] = "gepp"}}
        = (IF IsLower(ts.Mode) THEN (ts.trace[a][2] + ts.kc)..(Rows(ts.tri) - 1)
           ELSE 0..(ts.trace[a][2] - ts.kc - 1))

\* right side: before the next panel is started, every block of rows of B has
\* had the columns that are still to be solved updated
RightPropagated ==
    \A a \in PanelStarts(ts.trace) :
        LET actual_k2 == ts.trace[a][2]
            actual_kc == ts.trace[a][3]
            startPanel == IF IsLower(ts.Mode) THEN 0 ELSE actual_k2 + actual_kc
            rs == IF IsLower(ts.Mode) THEN actual_k2
                  ELSE Rows(ts.tri) - actual_k2 - actual_kc
            gebs == {z \in PanelSteps(ts.trace, a) : ts.trace[z][1] = "geb"}
        IN  /\ {ts.trace[q][2] : q \in gebs} =
                   (IF rs > 0 THEN {i2 \in 0..(Rows(ts.other) - 1) : i2 % ts.mc = 0}
                    ELSE {})
            /\ \A q \in gebs : ts.trace[q][3] = startPanel /\ ts.trace[q][4] = rs

\* C25 (amended): the cache-sized panels are processed in the order the
\* triangular structure dictates: on the left side with increasing k2 for a
\* lower operand and decreasing k2 for an upper one, on the right side with
\* decreasing k2 for a lower operand and increasing k2 for an upper one; a
\* panel's effect is propagated to the remainder of B before the next panel
C25_PanelOrder ==
    ts.pc = "done" =>
        /\ IF (ts.Side = "OnTheLeft") = IsLower(ts.Mode)
           THEN Increasing(PanelOrder(ts.trace))
           ELSE Decreasing(PanelOrder(ts.trace))
        /\ PanelOrder(ts.trace) # <<>>
        /\ IF ts.Side = "OnTheLeft" THEN LeftPropagated ELSE RightPropagated

\* C25 as stated: increasing k2 for a lower operand and decreasing k2 for an
\* upper one on the left side and on the right side alike
C25_SameOrder ==
    ts.pc = "done" =>
        /\ IF IsLower(ts.Mode)
           THEN Increasing(PanelOrder(ts.trace))
           ELSE Decreasing(PanelOrder(ts.trace))
        /\ IF ts.Side = "OnTheLeft" THEN LeftPropagated ELSE RightPropagated

\* a right-side run on a lower operand that took three panels and updated
\* the remaining columns in two blocks of rows
C25_Witness ==
    /\ ts.pc = "done"
    /\ ts.Side = "OnTheRight"
    /\ ts.Mode = "Lower"
    /\ Len(PanelOrder(ts.trace)) = 3
    /\ Cardinality({q \in PanelSteps(ts.trace, 1) : ts.trace[q][1] = "geb"}) = 2

\* a left-side run on an upper operand that took three panels and updated
\* the remaining rows in two blocks
C25_WitnessLeft ==
    /\ ts.pc = "done"
    /\ ts.Side = "OnTheLeft"
    /\ ts.Mode = "Upper"
    /\ Len(PanelOrder(ts.trace)) = 3
    /\ Cardinality({q \in PanelSteps(ts.trace, 1) : ts.trace[q][1] = "gepp"}) = 2

RECURSIVE swap_rows_in_order(_, _, _, _)
\* M after the exchanges of the whole rows i and tr[i] for i = lo, ..., hi-1,
\* made in this order
swap_rows_in_order(M, tr, lo, hi) ==
    IF lo >= hi THEN M
    ELSE swap_rows_in_order(SwapRows(M, lo, tr[lo]), tr, lo + 1, hi)

\* an iteration of the loop over the blocks whose panel was factored
C26_Step ==
    (b.pc = "loop" /\ b' # b /\ b'.ret /\ Min(Rows(matrix), Cols(matrix)) > 16) =>
        LET rows  == Rows(b.lu)
            size  == Min(rows, Cols(b.lu))
            k     == b.k
            bs    == Min(size - k, blockSizeFor(size, maxBlockSize))
            trows == rows - k - bs
            tsize == size - k - bs
            panel == blocked_lu(StorageOrder, panel_of(b, k, bs),
                                [i \in 0..(bs - 1) |-> b.row_transpositions[k + i]], 16)
            tr    == [i \in k..(k + bs - 1) |-> panel.row_transpositions[i - k] + k]
            S     == swap_rows_in_order(b.lu, tr, k, k + bs)
            A12   == Block(b'.lu, k, k + bs, bs, tsize)
        IN  /\ Block(b'.lu, k, k, rows - k, bs) = panel.lu
            /\ \A i \in k..(k + bs - 1) : b'.row_transpositions[i] = tr[i]
            /\ Block(b'.lu, 0, 0, rows, k) = Block(S, 0, 0, rows, k)
            /\ Block(b'.lu, 0, k, k, size - k) = Block(b.lu, 0, k, k, size - k)
            /\ MatMul(TriangularView("UnitLower", Block(panel.lu, 0, 0, bs, bs)), A12)
                   = Block(S, k, k + bs, bs, tsize)
            /\ Block(b'.lu, k + bs, k + bs, trows, tsize)
                   = CwiseSub(Block(S, k + bs, k + bs, trows, tsize),
                              MatMul(Block(panel.lu, bs, 0, trows, bs), A12))
            /\ b'.k = k + blockSizeFor(size, maxBlockSize)

\* C26: within each block iteration of blocked_lu (1) the leading panel (all
\* rows from k down, bs columns) is factored, (2) its transpositions are made
\* global and applied in increasing index order to the columns on the left,
\* (3) the same transpositions are applied in the same order to the columns
\* on the right, (4) A12 is solved in place against the unit-lower part of
\* A11, (5) A22 -= A21 * A12 with the solved A12; skipping steps 3-5 when
\* there are no trailing rows leaves nothing undone
C26_StepOrder == [][C26_Step]_vars

\* an iteration on a block that does not start at column 0 has exchanged
\* rows and has left rows and columns for the next iteration
C26_Witness ==
    /\ b.pc = "loop"
    /\ b.ret
    /\ Min(Rows(matrix), Cols(matrix)) > 16
    /\ b.k >= 2 * blockSizeFor(Min(Rows(matrix), Cols(matrix)), maxBlockSize)
    /\ \E i \in (b.k - blockSizeFor(Min(Rows(matrix), Cols(matrix)), maxBlockSize))..(b.k - 1) :
          b.row_transpositions[i] # i

\* the last iteration, which has no trailing rows, has returned
C26_WitnessLast ==
    /\ b.pc = "done"
    /\ b.ret
    /\ Min(Rows(matrix), Cols(matrix)) > 16
    /\ \E i \in 0..(Rows(matrix) - 1) : b.row_transpositions[i] # i

\* the blocks bl of a call cover the columns from 0 on, one after the other
Consecutive(bl) ==
    /\ bl # <<>> => bl[1][1] = 0
    /\ \A i \in 1..Len(bl) : bl[i][2] > 0
    /\ \A i \in 1..(Len(bl) - 1) : bl[i + 1][1] = bl[i][1] + bl[i][2]

\* the first column no block of bl has covered
CoveredTo(bl) == IF bl = <<>> THEN 0 ELSE bl[Len(bl)][1] + bl[Len(bl)][2]

\* the calls in progress: at most three are nested; only the first two loop
\* over blocks, the first with a width in [8, maxBlockSize]; each has given
\* its columns to consecutive blocks, one call per block, and leaves its loop
\* when they cover [0, size)
NestState ==
    nest.pc # "idle" =>
        /\ Len(nest.stack) <= 3
        /\ \A d \in 1..Len(nest.stack) :
              LET f == nest.stack[d]
                  looping == d < Len(nest.stack) \/ nest.pc \in {"loop", "return"}
              IN  /\ f.rows >= f.cols
                  /\ looping =>
                        /\ NestSize(f) > 16
                        /\ d <= 2
                        /\ f.blockSize >= 8 /\ f.blockSize <= f.maxBlockSize
                        /\ Consecutive(f.blocks)
                        /\ CoveredTo(f.blocks) <= NestSize(f)
                        /\ IF d < Len(nest.stack) \/ nest.pc = "return"
                           THEN f.k = f.blocks[Len(f.blocks)][1]
                           ELSE CoveredTo(f.blocks) = Min(f.k, NestSize(f))

\* a call leaves its loop over the blocks only when they cover [0, size)
NestLoopLeft ==
    (nest.pc = "loop" /\ nest'.pc = "return") =>
        CoveredTo(NestTop.blocks) = NestSize(NestTop)

NestReturned == nest.pc = "return" /\ nest.stack = <<>>

\* C27: blocked_lu called with the default maxBlockSize terminates for every
\* rows >= cols >= 0; for size > 16 the block width is in [8, maxBlockSize],
\* the block loop covers the columns [0, size) in consecutive disjoint blocks
\* each factored exactly once, and the calls are never nested more than
\* three deep
C27_Terminates == []NestState /\ [][NestLoopLeft]_vars /\ <>NestReturned

\* three calls are nested: the panel of a panel is being factored
C27_Witness ==
    /\ nest.pc = "call"
    /\ Len(nest.stack) = 3
    /\ nest.stack[1].k > 0
    /\ nest.stack[2].k > 0

\* a call on a matrix of more than 16 columns has returned true
C27_WitnessReturned ==
    /\ NestReturned
    /\ nest.ret
    /\ nest.calls > 3

\* every entry of L is at most 1 in absolute value and no diagonal entry of
\* U is zero
Bounded(lu) ==
    /\ \A i \in DOMAIN lu : \A j \in DOMAIN lu[i] :
          i > j => IsFinite(lu[i][j]) /\ ~AbsGreater(lu[i][j], One)
    /\ \A i \in 0..(Min(Rows(lu), Cols(lu)) - 1) : IsFinite(lu[i][i]) /\ ~IsZero(lu[i][i])

\* a factorization that returned true, unblocked or blocked, is bounded
C28_State ==
    /\ (u.pc = "done" /\ u.ret) => Bounded(u.lu)
    /\ (b.pc = "done" /\ b.ret) => Bounded(b.lu)

\* the step k of unblocked_lu that found a pivot recorded a row of k..m-1
\* whose coefficient in column k is the largest in absolute value
C28_Step ==
    (u.pc = "loop" /\ u' # u /\ u'.ret) =>
        /\ u'.row_transpositions[u.k] \in u.k..(Rows(u.lu) - 1)
        /\ \A i \in u.k..(Rows(u.lu) - 1) :
              ~AbsGreater(u.lu[i][u.k], u.lu[u'.row_transpositions[u.k]][u.k])
        /\ <<u.k, u'.row_transpositions[u.k]>> \in u'.pivots
        /\ \A i \in (u.k + 1)..(Rows(u.lu) - 1) : ~AbsGreater(u'.lu[i][u.k], One)

\* C28: at each elimination step k the recorded pivot row holds the maximum
\* absolute value of column k over rows k..m-1 of the current partially
\* eliminated matrix, so after a successful factorization (blocked or
\* unblocked) every entry of L has absolute value <= 1 and every diagonal
\* entry of U is non-zero
C28_PartialPivoting == []C28_State /\ [][C28_Step]_vars

\* a blocked factorization returned true after exchanging rows, with a
\* multiplier that is neither 0 nor of absolute value 1
C28_Witness ==
    /\ b.pc = "done" /\ b.ret
    /\ Rows(b.lu) > 16
    /\ b.nb_transpositions > 0
    /\ \E i \in DOMAIN b.lu : \E j \in 0..(i - 1) :
          ~IsZero(b.lu[i][j]) /\ AbsGreater(One, b.lu[i][j])

\* the same for an unblocked factorization
C28_WitnessUnblocked ==
    /\ u.pc = "done" /\ u.ret
    /\ u.nb_transpositions > 0
    /\ \E i \in DOMAIN u.lu : \E j \in 0..(i - 1) :
          ~IsZero(u.lu[i][j]) /\ AbsGreater(One, u.lu[i][j])

\* the coefficient (i, j) belongs to the triangle the mode names: strictly
\* below or above the diagonal, and the diagonal unless it is taken as 1
InTriangle(Mode, i, j) ==
    IF i = j THEN ~UnitDiag(Mode)
    ELSE IF IsLower(Mode) THEN j < i ELSE j > i

\* the operand with every coefficient outside the triangle replaced
Outside(Mode, tri, fill) ==
    [i \in DOMAIN tri |-> [j \in DOMAIN tri[i] |->
        IF InTriangle(Mode, i, j) THEN tri[i][j] ELSE fill]]

\* what the call ts leaves in `other` when its operand is tri
ResultOn(tri) ==
    IF ts.Side = "OnTheLeft"
    THEN triangular_solve_left(ts.Mode, ts.TriStorageOrder, tri, ts.B, Cols(ts.B),
                               ts.kc, ts.mc, ts.SmallPanelWidth).other
    ELSE triangular_solve_right(ts.Mode, ts.TriStorageOrder, tri, ts.B,
                                ts.kc, ts.mc, ts.SmallPanelWidth).other

\* C29: the triangular solve reads only its own triangle of the operand:
\* with a unit-diagonal mode the result X does not depend on the diagonal or
\* on the other triangle, with a non-unit mode it does not depend on the
\* other triangle; a run whose operand differs only outside the triangle,
\* even by values that are not numbers, gives the identical X
C29_OwnTriangle ==
    ts.pc = "done" =>
        /\ ResultOn(ts.tri) = ts.other
        /\ \A fill \in {NaN, RInt(5)} : ResultOn(Outside(ts.Mode, ts.tri, fill)) = ts.other
        /\ AllFinite(ts.other)

\* a unit-lower left-side run of several panels returned; the operand's
\* diagonal and upper triangle hold coefficients that are not 0
C29_Witness ==
    /\ ts.pc = "done"
    /\ ts.Mode = "UnitLower"
    /\ ts.Side = "OnTheLeft"
    /\ Rows(ts.tri) >= 4
    /\ ts.kc < Rows(ts.tri)
    /\ \E i \in DOMAIN ts.tri : \E j \in DOMAIN ts.tri : j > i /\ ~IsZero(ts.tri[i][j])
    /\ ts.other # ts.B

\* an upper right-side run of several panels returned; the operand's lower
\* triangle holds coefficients that are not 0
C29_WitnessUpper ==
    /\ ts.pc = "done"
    /\ ts.Mode = "Upper"
    /\ ts.Side = "OnTheRight"
    /\ Rows(ts.tri) >= 4
    /\ ts.kc < Rows(ts.tri)
    /\ \E i \in DOMAIN ts.tri : \E j \in DOMAIN ts.tri : j < i /\ ~IsZero(ts.tri[i][j])
    /\ ts.other # ts.B

\* the positions of the steps of one kind in the trace of the call ts
StepsOf(kind) == {p \in 1..Len(ts.trace) : ts.trace[p][1] = kind}

\* the rows a..a+n-1
Range(a, n) == a..(a + n - 1)

\* the diagonal indices of the sweep in the order they were handled
RowOrder(trace) ==
    LET RECURSIVE from(_)
        from(a) == IF a > Len(trace) THEN <<>>
                   ELSE IF trace[a][1] = "row" THEN <<trace[a][2]>> \o from(a + 1)
                   ELSE from(a + 1)
    IN  from(1)

\* the sweep handles each of 0..size-1 once, upwards for a lower operand and
\* downwards for an upper one
LeftSweepOrder ==
    RowOrder(ts.trace) =
        [n \in 1..Rows(ts.tri) |-> IF IsLower(ts.Mode) THEN n - 1 ELSE Rows(ts.tri) - n]

\* the rows and columns the steps touch are rows and columns of the operand:
\* the rows the loop over i3 visits from s on, the rows packed from
\* startBlock on, the rows updated from startTarget on and by the GEPP
LeftAccessesInside ==
    LET size == Rows(ts.tri)
    IN  /\ \A p \in StepsOf("row") :
              /\ ts.trace[p][2] \in 0..(size - 1)
              /\ ts.trace[p][4] >= 0
              /\ Range(ts.trace[p][3], ts.trace[p][4]) \subseteq 0..(size - 1)
        /\ \A p \in StepsOf("pack") \cup StepsOf("gebp") \cup StepsOf("gepp") :
              /\ ts.trace[p][2] \in 0..(size - 1)
              /\ ts.trace[p][3] > 0
              /\ Range(ts.trace[p][2], ts.trace[p][3]) \subseteq 0..(size - 1)

\* row i is handled after the rows it depends on, the rows a row-major step
\* reads from s on are final, and no later step writes row i
LeftDependencies ==
    \A p \in StepsOf("row") :
        LET i == ts.trace[p][2]
        IN  /\ \A j \in (IF IsLower(ts.Mode) THEN 0..(i - 1)
                          ELSE (i + 1)..(Rows(ts.tri) - 1)) :
                  \E q \in StepsOf("row") : q < p /\ ts.trace[q][2] = j
            /\ ts.TriStorageOrder = "RowMajor" =>
                  \A j \in Range(ts.trace[p][3], ts.trace[p][4]) :
                      \E q \in StepsOf("row") : q < p /\ ts.trace[q][2] = j
            /\ \A q \in (p + 1)..Len(ts.trace) :
                  /\ ts.trace[q][1] \in {"gebp", "gepp"} =>
                        i \notin Range(ts.trace[q][2], ts.trace[q][3])
                  /\ (ts.trace[q][1] = "row" /\ ts.TriStorageOrder = "ColMajor") =>
                        i \notin Range(ts.trace[q][3], ts.trace[q][4])
                  /\ ts.trace[q][1] = "row" => ts.trace[q][2] # i

\* C30 (amended): in the left-side solver the diagonal index i of the
\* unblocked sweep takes each value of 0..size-1 exactly once, increasing for
\* a lower and decreasing for an upper operand; i, startBlock, startTarget
\* and the rows of the GEPP stay inside [0, size); s stays inside [0, size]
\* and every coefficient reached from it is inside [0, size); row i of X is
\* finalised only after every row it depends on
C30_Indices ==
    (ts.pc = "done" /\ ts.Side = "OnTheLeft") =>
        /\ LeftSweepOrder
        /\ LeftAccessesInside
        /\ \A p \in StepsOf("row") : ts.trace[p][3] \in 0..Rows(ts.tri)
        /\ LeftDependencies

\* C30 as stated: s too stays inside [0, size)
C30_AsStated ==
    (ts.pc = "done" /\ ts.Side = "OnTheLeft") =>
        /\ LeftSweepOrder
        /\ LeftAccessesInside
        /\ \A p \in StepsOf("row") : ts.trace[p][3] \in 0..(Rows(ts.tri) - 1)
        /\ LeftDependencies

\* a left-side run of several panels on an upper row-major operand: the
\* first step of its sweep has s = size
C30_Witness ==
    /\ ts.pc = "done"
    /\ ts.Side = "OnTheLeft"
    /\ ts.Mode = "Upper"
    /\ ts.TriStorageOrder = "RowMajor"
    /\ Rows(ts.tri) >= 4
    /\ ts.kc < Rows(ts.tri)
    /\ \E p \in StepsOf("row") : ts.trace[p][3] = Rows(ts.tri) /\ ts.trace[p][4] = 0
    /\ StepsOf("gebp") # {} /\ StepsOf("gepp") # {}

\* a left-side run of several panels on a lower column-major operand: the
\* last step of its sweep has s = size
C30_WitnessLower ==
    /\ ts.pc = "done"
    /\ ts.Side = "OnTheLeft"
    /\ ts.Mode = "Lower"
    /\ ts.TriStorageOrder = "ColMajor"
    /\ Rows(ts.tri) >= 4
    /\ ts.kc < Rows(ts.tri)
    /\ \E p \in StepsOf("row") : ts.trace[p][3] = Rows(ts.tri) /\ ts.trace[p][4] = 0
    /\ StepsOf("gebp") # {} /\ StepsOf("gepp") # {}

====
